---- MODULE Spec2Model ----
(***************************************************************************)
(* Telescope: the post-processing pipeline of one page-load run.           *)
(*   - TestRunner.fillOutHar / mergeEntries (testRunner.ts): live request  *)
(*     timing samples are merged into the entries of pageload.har;         *)
(*   - parseHarFile (generateHtml.ts): archive entries become request      *)
(*     records with phase durations and percentages;                       *)
(*   - calculateTimingPhases (generateHtml.ts): page-level phases;         *)
(*   - TestRunner.preparePage: installation of the route handlers and the  *)
(*     order in which a request runs through them;                         *)
(*   - generateHtml (generateHtml.ts): vitals and ratings, layout-shift    *)
(*     overlays, waterfall rows of the report;                             *)
(*   - launchTest / executeTest (index.ts) and the TestRunner steps they   *)
(*     await: the life of a run, alone or next to another run.             *)
(* Floating-point percentages are kept exact, as a fraction num/den.       *)
(***************************************************************************)
EXTENDS Integers, Sequences, FiniteSets, TLC

VARIABLES harPc, archive, harEntries, requests, lcpEvents, indexLog,
          harRequests, navPc, navTiming, timing,
          routePc, options, routes, pageRequest, cursor, invoked, outcome,
          rewritten, delayed,
          harFile, pageTimings, harResult, layoutShifts, report,
          runPc, config, pageloadHar, files, browserOpen, temporaryContext,
          throttled, runError, uploaded, result,
          cliPc, cliOptions, cliConfig,
          envPc, processEnv, CI, browsers,
          prefsPc, firefoxPrefs, userJs, copyPending,
          uploadPc, uploadBody, existingTestId, tests, bucket, response

harVars == <<harPc, archive, harEntries, requests, lcpEvents, indexLog,
             harRequests>>
navVars == <<navPc, navTiming, timing>>
routeVars == <<routePc, options, routes, pageRequest, cursor, invoked, outcome,
               rewritten, delayed>>
reportVars == <<harFile, pageTimings, harResult, layoutShifts, report>>
runVars == <<runPc, config, pageloadHar, files, browserOpen, temporaryContext,
             throttled, runError, uploaded, result>>
cliVars == <<cliPc, cliOptions, cliConfig>>
envVars == <<envPc, processEnv, CI, browsers>>
prefsVars == <<prefsPc, firefoxPrefs, userJs, copyPending>>
uploadVars == <<uploadPc, uploadBody, existingTestId, tests, bucket, response>>
toolVars == <<cliVars, envVars, prefsVars, uploadVars>>
vars == <<harVars, navVars, routeVars, reportVars, runVars, toolVars>>

(* ------------------------------ bounds --------------------------------- *)
MaxEntries == 2
MaxSamples == 2
MaxLcp == 2
MaxT == 1
MaxNavT == 2
MaxMissing == 1
MaxDelayRules == 2

URLs == {"https://example.com/", "https://example.com/app.js"}
Null == "null"

(* ------------------------ JavaScript helpers --------------------------- *)
\* `e.f || 0` on an optional numeric field: absent (undefined) and 0 give 0
OrZero(e, f) == IF f \in DOMAIN e THEN e[f] ELSE 0

\* truthiness of a number: every number but 0 (so -1 is truthy)
Truthy(x) == x # 0

\* a / b * 100 kept exact; the code only divides when b > 0
Pct(a, b) == [num |-> a * 100, den |-> b]
ZeroPct == [num |-> 0, den |-> 1]

\* mutation: the division is guarded against a zero total only
RatioPctNonZero(dur, total) == IF total # 0 THEN Pct(dur, total) ELSE ZeroPct

\* total > 0 ? (dur / total) * 100 : 0
RatioPct(dur, total) == IF total > 0 THEN Pct(dur, total) ELSE ZeroPct

\* total > 0 && dur > 0 ? (dur / total) * 100 : 0
PositivePct(dur, total) ==
  IF total > 0 /\ dur > 0 THEN Pct(dur, total) ELSE ZeroPct

(* --------------------------- mergeEntries ------------------------------ *)
TimingFields == {"_dns_start", "_dns_end", "_connect_start", "_connect_end",
                 "_secure_start", "_secure_end", "_request_start",
                 "_request_end", "_response_start", "_response_end"}

\* RequestData.rawTimings is optional and never assigned by preparePage
HasRawTimings(request) ==
  IF "rawTimings" \in DOMAIN request THEN request.rawTimings ELSE FALSE

\* mutation: the guard reads the archive entry, skipping entries that
\* already carry merged timings
FindIndexSkipUpdated(entries, request) ==
  LET hits == {i \in 1..Len(entries) :
                 entries[i].url = request.url
                 /\ "_request_start" \notin DOMAIN entries[i]}
  IN IF hits = {} THEN 0 ELSE CHOOSE i \in hits : \A j \in hits : i <= j

\* harEntries.findIndex(...): index of the first match, 0 for -1
FindIndex(entries, request) ==
  LET hits == {i \in 1..Len(entries) :
                 entries[i].url = request.url /\ ~HasRawTimings(request)}
  IN IF hits = {} THEN 0 ELSE CHOOSE i \in hits : \A j \in hits : i <= j

\* { ...harEntries[indexToUpdate], _dns_start: ..., ... } and the LCP flag
UpdatedObject(entry, request, lcpURL) ==
  LET t == request.timing
      connectEnd == IF t.secureConnectionStart > 0
                    THEN t.secureConnectionStart ELSE t.connectEnd
      secureStart == IF Truthy(t.secureConnectionStart)
                     THEN t.secureConnectionStart ELSE -1
      secureEnd == IF Truthy(t.secureConnectionStart)
                   THEN t.connectEnd ELSE -1
      fields == [_dns_start |-> t.domainLookupStart,
                 _dns_end |-> t.domainLookupEnd,
                 _connect_start |-> t.connectStart,
                 _connect_end |-> connectEnd,
                 _secure_start |-> secureStart,
                 _secure_end |-> secureEnd,
                 _request_start |-> t.requestStart,
                 _request_end |-> t.responseStart,
                 _response_start |-> t.responseStart,
                 _response_end |-> t.responseEnd]
      spread == fields @@ entry
  IN IF request.url = lcpURL
     THEN ("_is_lcp" :> TRUE) @@ spread
     ELSE spread

\* mutation: the updated object is inserted and the old entry kept
SpliceInsert(entries, i, obj) ==
  SubSeq(entries, 1, i - 1) \o <<obj>> \o SubSeq(entries, i, Len(entries))

\* harEntries.splice(indexToUpdate, 1, updatedObject)
Splice(entries, i, obj) == [entries EXCEPT ![i] = obj]

\* the loop over this.requests, from sample k on; log keeps each sample's
\* indexToUpdate
RECURSIVE MergeFrom(_, _, _, _, _)
MergeFrom(entries, reqs, lcpURL, k, log) ==
  IF k > Len(reqs)
  THEN [entries |-> entries, log |-> log]
  ELSE LET i == FindIndex(entries, reqs[k])
           next == IF i # 0
                   THEN Splice(entries, i,
                               UpdatedObject(entries[i], reqs[k], lcpURL))
                   ELSE entries
       IN MergeFrom(next, reqs, lcpURL, k + 1, Append(log, i))

MergeEntries(entries, reqs, lcpURL) == MergeFrom(entries, reqs, lcpURL, 1, <<>>)

\* fillOutHar: the last LCP event wins; an event without url leaves null
LcpURL(events) ==
  IF Len(events) > 0 /\ events[Len(events)].url # ""
  THEN events[Len(events)].url
  ELSE Null

\* a - b in JS arithmetic: NaN as soon as one operand is undefined
Minus(e, f, g) ==
  IF f \in DOMAIN e /\ g \in DOMAIN e THEN e[f] - e[g] ELSE "NaN"

\* fillOutHar: pages[0].pageTimings gets _TTFB from the navigation timing
\* and _LCP from the last LCP event (JSON drops an undefined startTime)
PageTimingsOf(nav, events) ==
  LET ttfb == [_TTFB |-> Minus(nav, "responseStart", "navigationStart")]
  IN IF Len(events) > 0 /\ "startTime" \in DOMAIN events[Len(events)]
     THEN [_TTFB |-> ttfb._TTFB, _LCP |-> events[Len(events)].startTime]
     ELSE ttfb

\* readFileSync and JSON.parse are not guarded: an absent or unparsable
\* pageload.har makes fillOutHar throw
FillOutHar ==
  /\ harPc = "captured"
  /\ IF harFile = "present"
     THEN LET m == MergeEntries(harEntries, requests, LcpURL(lcpEvents))
          IN /\ harEntries' = m.entries
             /\ indexLog' = m.log
             /\ pageTimings' = PageTimingsOf(navTiming, lcpEvents)
             /\ harPc' = "merged"
     ELSE /\ harPc' = "threw"
          /\ UNCHANGED <<harEntries, indexLog, pageTimings>>
  /\ UNCHANGED <<archive, requests, lcpEvents, harRequests, navVars, routeVars,
               harFile, harResult, layoutShifts, report, runVars, toolVars>>

(* --------------------------- parseHarFile ------------------------------ *)
RequestOf(entry) ==
  LET dnsStart == OrZero(entry, "_dns_start")
      dnsEnd == OrZero(entry, "_dns_end")
      connectStart == OrZero(entry, "_connect_start")
      connectEnd == OrZero(entry, "_connect_end")
      secureStart == OrZero(entry, "_secure_start")
      secureEnd == OrZero(entry, "_secure_end")
      requestStart == OrZero(entry, "_request_start")
      requestEnd == OrZero(entry, "_request_end")
      responseStart == OrZero(entry, "_response_start")
      responseEnd == OrZero(entry, "_response_end")
      dns == dnsEnd - dnsStart
      connect == connectEnd - connectStart
      ssl == secureEnd - secureStart
      send == requestEnd - requestStart
      wait == responseStart - requestEnd
      receive == responseEnd - responseStart
      total == responseEnd - requestStart
  IN [url |-> entry.url,
      timings |->
        [dns_time |-> dns,
         connect_time |-> connect,
         ssl_time |-> ssl,
         send_time |-> send,
         wait_time |-> wait,
         receive_time |-> receive,
         total_time |-> total,
         dns_pct |-> PositivePct(dns, total),
         connect_pct |-> PositivePct(connect, total),
         ssl_pct |-> PositivePct(ssl, total),
         send_pct |-> RatioPct(send, total),
         wait_pct |-> RatioPct(wait, total),
         receive_pct |-> RatioPct(receive, total),
         response_start |-> responseStart,
         response_end |-> responseEnd]]

\* response._transferSize || 0, then response.content.size || 0
SizeOf(entry) ==
  IF OrZero(entry, "_transferSize") # 0
  THEN entry["_transferSize"]
  ELSE OrZero(entry, "size")

\* milliseconds since the first entry started; 0 when either date is missing
RelativeStart(entries, i) ==
  IF "startedDateTime" \in DOMAIN entries[i]
     /\ "startedDateTime" \in DOMAIN entries[1]
  THEN entries[i].startedDateTime - entries[1].startedDateTime
  ELSE 0

\* the record pushed for entry i: phases, size, start and duration
NetworkRequest(entries, i) ==
  [url |-> entries[i].url,
   timings |-> RequestOf(entries[i]).timings,
   size |-> SizeOf(entries[i]),
   start_time |-> RelativeStart(entries, i),
   duration |-> OrZero(entries[i], "time")]

\* parseHarFile without its try/catch: a failing read or parse escapes
ParseHarFileUnguarded(file, entries) ==
  IF file = "absent" \/ (file = "present" /\ Len(entries) = 0)
  THEN [result |-> "null", requests |-> <<>>]
  ELSE IF file = "unparsable"
  THEN [result |-> "threw", requests |-> <<>>]
  ELSE [result |-> "records",
        requests |-> [i \in 1..Len(entries) |-> NetworkRequest(entries, i)]]

\* null when the file is absent, when reading or parsing it throws (the
\* catch), when it has no entries; else one record per entry, in order
ParseHarFileOf(file, entries) ==
  IF file = "present" /\ Len(entries) > 0
  THEN [result |-> "records",
        requests |-> [i \in 1..Len(entries) |-> NetworkRequest(entries, i)]]
  ELSE [result |-> "null", requests |-> <<>>]

\* generateHtml calls parseHarFile after calculateTimingPhases
ParseHarFile ==
  /\ harPc = "merged"
  /\ navPc = "done"
  /\ LET parsed == ParseHarFileOf(harFile, harEntries)
     IN /\ harRequests' = parsed.requests
        /\ harResult' = parsed.result
  /\ harPc' = "parsed"
  /\ UNCHANGED <<archive, harEntries, requests, lcpEvents, indexLog, navVars,
               routeVars, harFile, pageTimings, layoutShifts, report,
               runVars, toolVars>>

(* ----------------------- calculateTimingPhases ------------------------- *)
PhasesOf(nav) ==
  LET dnsTime == OrZero(nav, "domainLookupEnd") - OrZero(nav, "domainLookupStart")
      tcpTime == OrZero(nav, "connectEnd") - OrZero(nav, "connectStart")
      sslTime == OrZero(nav, "connectEnd") - OrZero(nav, "secureConnectionStart")
      requestTime == OrZero(nav, "responseStart") - OrZero(nav, "requestStart")
      responseTime == OrZero(nav, "responseEnd") - OrZero(nav, "responseStart")
      domProcessing == OrZero(nav, "domInteractive") - OrZero(nav, "domLoading")
      domContentLoaded ==
        OrZero(nav, "domContentLoadedEventEnd") - OrZero(nav, "domInteractive")
      completeLoad ==
        OrZero(nav, "domComplete") - OrZero(nav, "domContentLoadedEventEnd")
      totalTime == OrZero(nav, "domComplete") - OrZero(nav, "navigationStart")
  IN [dns_time |-> dnsTime,
      tcp_time |-> tcpTime,
      ssl_time |-> sslTime,
      request_time |-> requestTime,
      response_time |-> responseTime,
      dom_processing |-> domProcessing,
      dom_content_loaded |-> domContentLoaded,
      complete_load |-> completeLoad,
      total_time |-> totalTime,
      dns_pct |-> RatioPct(dnsTime, totalTime),
      tcp_pct |-> RatioPct(tcpTime, totalTime),
      ssl_pct |-> RatioPct(sslTime, totalTime),
      request_pct |-> RatioPct(requestTime, totalTime),
      response_pct |-> RatioPct(responseTime, totalTime),
      processing_pct |-> RatioPct(domProcessing, totalTime),
      dom_content_pct |-> RatioPct(domContentLoaded, totalTime),
      complete_pct |-> RatioPct(completeLoad, totalTime)]

\* generateHtml on the post-processed results directory: the page-level
\* phases come first
CalculateTimingPhases ==
  /\ harPc = "merged"
  /\ navPc = "loaded"
  /\ timing' = PhasesOf(navTiming)
  /\ navPc' = "done"
  /\ UNCHANGED <<harVars, navTiming, routeVars, reportVars, runVars, toolVars>>

(* ------------------- generateHtml: the report data --------------------- *)
\* CLS values are kept in thousandths: the thresholds 0.1 and 0.25 are 100
\* and 250
GetRatingExclusive(metricName, value) ==
  CASE metricName = "LCP" ->
         IF value < 2500 THEN "Good"
         ELSE IF value < 4000 THEN "Needs Improvement" ELSE "Poor"
    [] metricName = "CLS" ->
         IF value < 100 THEN "Good"
         ELSE IF value < 250 THEN "Needs Improvement" ELSE "Poor"
    [] metricName = "TBT" ->
         IF value < 200 THEN "Good"
         ELSE IF value < 600 THEN "Needs Improvement" ELSE "Poor"
    [] OTHER -> "N/A"

GetRating(metricName, value) ==
  CASE metricName = "LCP" ->
         IF value <= 2500 THEN "Good"
         ELSE IF value <= 4000 THEN "Needs Improvement" ELSE "Poor"
    [] metricName = "CLS" ->
         IF value <= 100 THEN "Good"
         ELSE IF value <= 250 THEN "Needs Improvement" ELSE "Poor"
    [] metricName = "TBT" ->
         IF value <= 200 THEN "Good"
         ELSE IF value <= 600 THEN "Needs Improvement" ELSE "Poor"
    [] OTHER -> "N/A"

\* calculateCls: the sum of shift.value || 0
RECURSIVE CalculateCls(_)
CalculateCls(shifts) ==
  IF Len(shifts) = 0 THEN 0
  ELSE OrZero(Head(shifts), "value") + CalculateCls(Tail(shifts))

\* (metrics.largestContentfulPaint || [{}])[0] || {}, then startTime || 0
LcpTime(events) == IF Len(events) = 0 THEN 0 ELSE OrZero(events[1], "startTime")

Max2(a, b) == IF a >= b THEN a ELSE b

\* Math.max(viewport, prevRect[edge] || 0, currRect[edge] || 0) over the
\* sources of ONE shift: the viewport is declared inside the loop over shifts
RECURSIVE Viewport(_, _, _)
Viewport(sources, edge, default) ==
  IF Len(sources) = 0 THEN default
  ELSE Viewport(Tail(sources), edge,
                Max2(default, Max2(OrZero(Head(sources).previousRect, edge),
                                   OrZero(Head(sources).currentRect, edge))))

\* a source whose current rectangle has no width or no height is skipped
Drawn(source) ==
  /\ OrZero(source.currentRect, "width") # 0
  /\ OrZero(source.currentRect, "height") # 0

EdgePct(rect, f, viewport) ==
  IF viewport > 0 THEN Pct(OrZero(rect, f), viewport) ELSE ZeroPct

SourceVisual(source, vw, vh) ==
  [prevLeftPct |-> EdgePct(source.previousRect, "left", vw),
   prevTopPct |-> EdgePct(source.previousRect, "top", vh),
   prevWidthPct |-> EdgePct(source.previousRect, "width", vw),
   prevHeightPct |-> EdgePct(source.previousRect, "height", vh),
   currLeftPct |-> EdgePct(source.currentRect, "left", vw),
   currTopPct |-> EdgePct(source.currentRect, "top", vh),
   currWidthPct |-> EdgePct(source.currentRect, "width", vw),
   currHeightPct |-> EdgePct(source.currentRect, "height", vh)]

\* the overlay data of one shift, scaled by that shift's viewport
ShiftVisual(shift) ==
  LET vw == Viewport(shift.sources, "right", 1920)
      vh == Viewport(shift.sources, "bottom", 1536)
      drawn == SelectSeq(shift.sources, Drawn)
  IN [value |-> OrZero(shift, "value"),
      sources |-> Len(drawn),
      sourceVisualData |->
        [j \in 1..Len(drawn) |-> SourceVisual(drawn[j], vw, vh)]]

\* a shift none of whose sources is drawn is left out
RECURSIVE LayoutVisualData(_)
LayoutVisualData(shifts) ==
  IF Len(shifts) = 0 THEN <<>>
  ELSE LET v == ShiftVisual(Head(shifts))
       IN (IF v.sources > 0 THEN <<v>> ELSE <<>>)
            \o LayoutVisualData(Tail(shifts))

\* the size column: formatNumber(size) + suffix, kept as the floored number
\* and the suffix; the KB test comes first, so the MB and GB branches are
\* never taken
FormatSize(size) ==
  LET unit == IF size > 1024 THEN [divisor |-> 1024, suffix |-> " KB"]
              ELSE IF size > 1048576
              THEN [divisor |-> 1048576, suffix |-> " MB"]
              ELSE IF size > 1073741824
              THEN [divisor |-> 1073741824, suffix |-> " GB"]
              ELSE [divisor |-> 1, suffix |-> " B"]
  IN [number |-> size \div unit.divisor, suffix |-> unit.suffix]

RECURSIVE MinStartTime(_)
MinStartTime(reqs) ==
  IF Len(reqs) = 1 THEN reqs[1].start_time
  ELSE LET m == MinStartTime(Tail(reqs))
       IN IF reqs[1].start_time <= m THEN reqs[1].start_time ELSE m

\* Math.max(...start_time + duration, 0)
RECURSIVE MaxEnd(_)
MaxEnd(reqs) ==
  IF Len(reqs) = 0 THEN 0
  ELSE Max2(reqs[1].start_time + reqs[1].duration, MaxEnd(Tail(reqs)))

MaxEndTimeFromZero(reqs) == MaxEnd(reqs)

\* maxEndTime: the latest end, measured from the earliest start
MaxEndTime(reqs) == MaxEnd(reqs) - MinStartTime(reqs)

\* one waterfall row per parsed request
NetworkData(reqs) ==
  LET startTime == MinStartTime(reqs)
      maxEndTime == MaxEndTime(reqs)
  IN [i \in 1..Len(reqs) |->
        [fullUrl |-> reqs[i].url,
         size |-> FormatSize(reqs[i].size),
         startPct |-> RatioPct(reqs[i].start_time - startTime, maxEndTime),
         durationPct |-> RatioPct(reqs[i].duration, maxEndTime)]]

\* the rest of generateHtml: vitals and ratings, layout-shift overlays,
\* waterfall rows (none when parseHarFile gave null)
GenerateHtml ==
  /\ harPc = "parsed"
  /\ LET lcpTime == LcpTime(lcpEvents)
         clsScore == CalculateCls(layoutShifts)
         tbt == 0
     IN report' =
          [ttfb |-> timing.response_time,
           lcp |-> lcpTime,
           cls |-> clsScore,
           tbt |-> tbt,
           lcpRating |-> GetRating("LCP", lcpTime),
           clsRating |-> GetRating("CLS", clsScore),
           tbtRating |-> GetRating("TBT", tbt),
           layoutVisualData |-> LayoutVisualData(layoutShifts),
           networkData |->
             IF harResult = "records" /\ Len(harRequests) > 0
             THEN NetworkData(harRequests)
             ELSE <<>>]
  /\ harPc' = "reported"
  /\ UNCHANGED <<archive, harEntries, requests, lcpEvents, indexLog,
                 harRequests, navVars, routeVars, harFile, pageTimings,
                 harResult, layoutShifts, runVars, toolVars>>

(* ------------------ preparePage and route dispatch --------------------- *)
\* setupHostOverrides: one route for all overridden domains; with the
\* default {} the pattern is empty and matches every URL
OverrideRoutes(opts) ==
  IF opts.overrideHost = "unset" THEN <<>> ELSE <<[kind |-> "override", rule |-> 0]>>

\* setupResponseDelays: one route per rule, when delayUsing names a method
DelayRoutes(opts) ==
  IF opts.delayUsing \in {"fulfill", "continue"}
  THEN [r \in 1..opts.delay |-> [kind |-> "delay", rule |-> r]]
  ELSE <<>>

\* setupBlocking: the domain route, then the URL-pattern route
BlockingRoutes(opts) ==
  (IF opts.blockDomains THEN <<[kind |-> "blockDomains", rule |-> 0]>> ELSE <<>>)
  \o (IF opts.block THEN <<[kind |-> "block", rule |-> 0]>> ELSE <<>>)

\* mutation: blocking is set up before the response delays
RegisteredRoutesBlockFirst(opts) ==
  OverrideRoutes(opts) \o BlockingRoutes(opts) \o DelayRoutes(opts)

\* preparePage: host override, then response delays, then blocking
RegisteredRoutes(opts) ==
  OverrideRoutes(opts) \o DelayRoutes(opts) \o BlockingRoutes(opts)

PreparePage ==
  /\ routePc = "new"
  /\ routes' = RegisteredRoutes(options)
  /\ routePc' = "prepared"
  /\ UNCHANGED <<options, pageRequest, cursor, invoked, outcome, rewritten,
                 delayed, harVars, navVars, reportVars, runVars, toolVars>>

\* does the route's pattern match the request's URL
Matches(h, req) ==
  CASE h.kind = "override" -> options.overrideHost = "empty" \/ req.override
    [] h.kind = "delay" -> h.rule \in req.delay
    [] h.kind = "blockDomains" -> req.blockDomains
    [] h.kind = "block" -> req.block

RequestProfiles ==
  [override : BOOLEAN, delay : SUBSET (1..MaxDelayRules),
   blockDomains : BOOLEAN, block : BOOLEAN]

\* the page requests a URL: routing starts at the last registered route
IssueRequest(req) ==
  /\ routePc = "prepared"
  /\ pageRequest' = req
  /\ cursor' = Len(routes)
  /\ routePc' = "routing"
  /\ UNCHANGED <<options, routes, invoked, outcome, rewritten, delayed,
                 harVars, navVars, reportVars, runVars, toolVars>>

\* route handlers run in reverse order of registration: the matching
\* route registered last among those not yet tried, 0 when none is left
NextHandler ==
  LET hits == {i \in 1..cursor : Matches(routes[i], pageRequest)}
  IN IF hits = {} THEN 0 ELSE CHOOSE i \in hits : \A j \in hits : j <= i

\* route.abort()
RunBlockHandler ==
  /\ routePc = "routing"
  /\ NextHandler # 0
  /\ routes[NextHandler].kind \in {"blockDomains", "block"}
  /\ invoked' = Append(invoked, routes[NextHandler])
  /\ outcome' = "aborted"
  /\ routePc' = "done"
  /\ UNCHANGED <<options, routes, pageRequest, cursor, rewritten, delayed,
                 harVars, navVars, reportVars, runVars, toolVars>>

\* delayUsingFulfill / delayUsingContinue: wait, then route.fulfill() or
\* route.continue(); neither hands the request to another route
RunDelayHandler ==
  /\ routePc = "routing"
  /\ NextHandler # 0
  /\ routes[NextHandler].kind = "delay"
  /\ invoked' = Append(invoked, routes[NextHandler])
  /\ delayed' = TRUE
  /\ outcome' = IF options.delayUsing = "fulfill" THEN "fulfilled"
                ELSE "continued"
  /\ routePc' = "done"
  /\ UNCHANGED <<options, routes, pageRequest, cursor, rewritten, harVars, navVars, reportVars, runVars, toolVars>>

\* the override handler: route.fallback(), with the new url and the X-Host
\* header when an overridden domain matched
RunOverrideHandler ==
  /\ routePc = "routing"
  /\ NextHandler # 0
  /\ routes[NextHandler].kind = "override"
  /\ invoked' = Append(invoked, routes[NextHandler])
  /\ rewritten' = (options.overrideHost = "set" /\ pageRequest.override)
  /\ cursor' = NextHandler - 1
  /\ UNCHANGED <<routePc, options, routes, pageRequest, outcome, delayed,
                 harVars, navVars, reportVars, runVars, toolVars>>

\* no route is left for the request: it goes to the network
ContinueToNetwork ==
  /\ routePc = "routing"
  /\ NextHandler = 0
  /\ outcome' = "network"
  /\ routePc' = "done"
  /\ UNCHANGED <<options, routes, pageRequest, cursor, invoked, rewritten,
                 delayed, harVars, navVars, reportVars, runVars, toolVars>>

(* ------------------------------ inputs --------------------------------- *)
\* the non-decreasing sequences of n timestamps in 0..t
Chains(n, t) ==
  {[i \in 1..n |-> Cardinality({v \in 1..t : p[v] <= i})] :
     p \in [1..t -> 1..(n + 1)]}

\* the record with the i-th timestamp of chain c under the i-th name of
\* names, the fields of missing left out
Stamped(names, c, missing) ==
  LET kept == {i \in 1..Len(names) : names[i] \notin missing}
      nameOf == {names[i] : i \in kept}
  IN [f \in nameOf |-> c[CHOOSE i \in kept : names[i] = f]]

SeqsUpTo(S, n) == UNION {[1..k -> S] : k \in 0..n}

\* request.timing() of the automation library, -1 where a boundary does
\* not apply: connection set-up with TLS, with a zero secure boundary, and
\* without TLS
SampleTimings ==
  {[startTime |-> 0, domainLookupStart |-> -1, domainLookupEnd |-> -1,
    connectStart |-> c[1], secureConnectionStart |-> c[2], connectEnd |-> c[3],
    requestStart |-> 4, responseStart |-> 5, responseEnd |-> 7] :
   c \in {<<1, 2, 3>>, <<1, 0, 3>>, <<1, -1, 3>>}}

Samples == [url : URLs, timing : SampleTimings]

LcpEventSet == [url : URLs \cup {""}]

\* an entry as the recorder writes it: no internal timing field, no LCP flag
BareEntries == [url : URLs]

\* the command line has not been read
NoCli ==
  /\ cliPc = "idle"
  /\ cliOptions = <<>>
  /\ cliConfig = <<>>

\* the browser list has not been asked for
NoEnv ==
  /\ envPc = "idle"
  /\ processEnv = <<>>
  /\ CI = FALSE
  /\ browsers = <<>>

\* no Firefox preferences are being written
NoPrefs ==
  /\ prefsPc = [step |-> "idle", appended |-> 0]
  /\ firefoxPrefs = <<>>
  /\ userJs = <<>>
  /\ copyPending = FALSE

\* the upload endpoint is not serving
NoUpload ==
  /\ uploadPc = <<>>
  /\ uploadBody = <<>>
  /\ existingTestId = <<>>
  /\ tests = {}
  /\ bucket = {}
  /\ response = <<>>

\* neither the command line, the environment, the preferences file nor the
\* upload endpoint is in use
NoTools == NoCli /\ NoEnv /\ NoPrefs /\ NoUpload

\* metrics.navigationTiming || {}
NoNav ==
  /\ navPc = "loaded"
  /\ navTiming = <<>>
  /\ timing = <<>>

\* the archive is on disk; no report data has been asked for
NoReport ==
  /\ harFile = "present"
  /\ pageTimings = <<>>
  /\ harResult = "none"
  /\ layoutShifts = <<>>
  /\ report = <<>>

\* the two test IDs of the runs that may be in flight
Runs == {"run_a", "run_b"}

\* no run has been launched
NoRun ==
  /\ runPc = [r \in Runs |-> "idle"]
  /\ config = [r \in Runs |-> <<>>]
  /\ pageloadHar = [r \in Runs |-> "none"]
  /\ files = [r \in Runs |-> {}]
  /\ browserOpen = [r \in Runs |-> FALSE]
  /\ temporaryContext = FALSE
  /\ throttled = FALSE
  /\ runError = [r \in Runs |-> ""]
  /\ uploaded = [r \in Runs |-> "none"]
  /\ result = [r \in Runs |-> [state |-> "pending"]]

\* no page is being prepared
NoRoute ==
  /\ routePc = "idle"
  /\ options = <<>>
  /\ routes = <<>>
  /\ pageRequest = <<>>
  /\ cursor = 0
  /\ invoked = <<>>
  /\ outcome = "none"
  /\ rewritten = FALSE
  /\ delayed = FALSE

InitHar ==
  /\ harPc = "captured"
  /\ archive \in SeqsUpTo(BareEntries, MaxEntries) \ {<<>>}
  /\ harEntries = archive
  /\ requests \in SeqsUpTo(Samples, MaxSamples)
  /\ lcpEvents \in SeqsUpTo(LcpEventSet, MaxLcp)
  /\ indexLog = <<>>
  /\ harRequests = <<>>
  /\ NoNav
  /\ NoRoute
  /\ NoReport
  /\ NoRun
  /\ NoTools

NextHar == FillOutHar \/ CalculateTimingPhases \/ ParseHarFile

\* a run's capture: bare archive entries, live samples, LCP events
SpecHar == InitHar /\ [][NextHar]_vars

\* archives whose entries already carry internal timing fields: a
\* non-decreasing chain of boundaries, any of them missing, and the
\* end-to-end scenario of one request (100, 150, 200)
EntryFieldOrder ==
  <<"_dns_start", "_dns_end", "_connect_start", "_connect_end",
    "_secure_start", "_secure_end", "_request_start", "_request_end",
    "_response_start", "_response_end">>

ScenarioEntry ==
  [url |-> "https://example.com/", _request_start |-> 100,
   _response_start |-> 150, _response_end |-> 200]

ArchiveEntries ==
  {("url" :> "https://example.com/") @@ Stamped(EntryFieldOrder, c, missing) :
     c \in Chains(Len(EntryFieldOrder), MaxT), missing \in SUBSET TimingFields}
  \cup {ScenarioEntry}

\* navigation timing records: a non-decreasing chain of timestamps with
\* at most MaxMissing of them missing (not reached, or no TLS)
NavFieldOrder ==
  <<"navigationStart", "domainLookupStart", "domainLookupEnd", "connectStart",
    "secureConnectionStart", "connectEnd", "requestStart", "responseStart",
    "responseEnd", "domLoading", "domInteractive",
    "domContentLoadedEventEnd", "domComplete">>

NavFieldSet == {NavFieldOrder[i] : i \in 1..Len(NavFieldOrder)}

NavTimings ==
  {Stamped(NavFieldOrder, c, missing) :
     c \in Chains(Len(NavFieldOrder), MaxNavT),
     missing \in {m \in SUBSET NavFieldSet : Cardinality(m) <= MaxMissing}}

\* a request that never got a response: its total is negative
StalledEntry == [url |-> "https://example.com/", _request_start |-> 1]

\* a page whose load never completed: its total is negative
StalledNav == [navigationStart |-> 1, responseStart |-> 2, responseEnd |-> 3]

InitArchive ==
  /\ harPc = "captured"
  /\ archive \in {<<e>> : e \in ArchiveEntries}
  /\ harEntries = archive
  /\ requests = <<>>
  /\ lcpEvents = <<>>
  /\ indexLog = <<>>
  /\ harRequests = <<>>
  /\ navPc = "loaded"
  /\ navTiming = StalledNav
  /\ timing = <<>>
  /\ NoRoute
  /\ NoReport
  /\ NoRun
  /\ NoTools

InitNav ==
  /\ harPc = "captured"
  /\ archive = <<StalledEntry>>
  /\ harEntries = archive
  /\ requests = <<>>
  /\ lcpEvents = <<>>
  /\ indexLog = <<>>
  /\ harRequests = <<>>
  /\ navPc = "loaded"
  /\ navTiming \in NavTimings
  /\ timing = <<>>
  /\ NoRoute
  /\ NoReport
  /\ NoRun
  /\ NoTools

InitTiming == InitArchive \/ InitNav

SpecTiming == InitTiming /\ [][NextHar]_vars

\* the options of a run that matter to route interception
LaunchOptions ==
  [overrideHost : {"unset", "empty", "set"}, delay : 0..MaxDelayRules,
   delayUsing : {"unset", "fulfill", "continue"},
   blockDomains : BOOLEAN, block : BOOLEAN]

\* no archive is being processed
NoHar ==
  /\ harPc = "idle"
  /\ archive = <<>>
  /\ harEntries = <<>>
  /\ requests = <<>>
  /\ lcpEvents = <<>>
  /\ indexLog = <<>>
  /\ harRequests = <<>>
  /\ navPc = "idle"
  /\ navTiming = <<>>
  /\ timing = <<>>

InitRoute ==
  /\ routePc = "new"
  /\ options \in LaunchOptions
  /\ routes = <<>>
  /\ pageRequest = <<>>
  /\ cursor = 0
  /\ invoked = <<>>
  /\ outcome = "none"
  /\ rewritten = FALSE
  /\ delayed = FALSE
  /\ NoHar
  /\ NoReport
  /\ NoRun
  /\ NoTools

NextRoute ==
  \/ PreparePage
  \/ \E req \in RequestProfiles : IssueRequest(req)
  \/ RunBlockHandler
  \/ RunDelayHandler
  \/ RunOverrideHandler
  \/ ContinueToNetwork

SpecRoute == InitRoute /\ [][NextRoute]_vars

(* ===================== TelemetryMerger properties ====================== *)
EntriesWith(u) == {i \in 1..Len(harEntries) : harEntries[i].url = u}
SamplesWith(u) == {k \in 1..Len(requests) : requests[k].url = u}
Merged == harPc \in {"merged", "parsed"}
Enriched(e) == TimingFields \subseteq DOMAIN e
IsLcp(e) == IF "_is_lcp" \in DOMAIN e THEN e["_is_lcp"] ELSE FALSE

\* C1: with N entries and N samples of one URL, the samples update N
\* distinct entries, so all N entries are enriched and none is hit twice.
C1_EachSampleADistinctEntry ==
  Merged =>
    \A u \in URLs :
      Cardinality(EntriesWith(u)) = Cardinality(SamplesWith(u)) =>
        /\ \A k1, k2 \in SamplesWith(u) :
             k1 # k2 => indexLog[k1] # indexLog[k2]
        /\ \A i \in EntriesWith(u) : Enriched(harEntries[i])

\* C2: after the merge at most one entry carries _is_lcp = true, and its
\* URL is the URL of the last Largest-Contentful-Paint event.
C2_AtMostOneLcp ==
  Merged =>
    LET flagged == {i \in 1..Len(harEntries) : IsLcp(harEntries[i])}
    IN /\ Cardinality(flagged) <= 1
       /\ \A i \in flagged :
            /\ Len(lcpEvents) > 0
            /\ harEntries[i].url = lcpEvents[Len(lcpEvents)].url

\* several entries and several samples share the winning LCP URL, an
\* earlier LCP event named another URL, and one entry is flagged
C2_Witness ==
  /\ Merged
  /\ Len(lcpEvents) = 2
  /\ lcpEvents[1].url # lcpEvents[2].url
  /\ lcpEvents[1].url # ""
  /\ Cardinality(EntriesWith(lcpEvents[2].url)) = 2
  /\ Cardinality(SamplesWith(lcpEvents[2].url)) = 2
  /\ \E i \in 1..Len(harEntries) : IsLcp(harEntries[i])

\* C3: the merge keeps the number and the order of the entries, and an
\* entry whose URL no sample carries is returned exactly as it was.
C3_SameOrderUntouchedUnmatched ==
  Merged =>
    /\ Len(harEntries) = Len(archive)
    /\ \A i \in 1..Len(harEntries) :
         /\ harEntries[i].url = archive[i].url
         /\ SamplesWith(archive[i].url) = {} => harEntries[i] = archive[i]

\* an unmatched entry sits after an entry that a sample did update
C3_Witness ==
  /\ Merged
  /\ Len(harEntries) = 2
  /\ Enriched(harEntries[1])
  /\ SamplesWith(harEntries[2].url) = {}
  /\ harEntries[2] = archive[2]

\* the last sample that updated entry i (0 when none did)
LastSampleFor(i) ==
  LET ks == {k \in 1..Len(indexLog) : indexLog[k] = i}
  IN IF ks = {} THEN 0 ELSE CHOOSE k \in ks : \A j \in ks : j <= k

\* C4: an enriched entry has _connect_end = secureConnectionStart and the
\* secure phase filled when secureConnectionStart > 0, and otherwise
\* _connect_end = connectEnd with _secure_start = _secure_end = -1.
C4_SecureBoundary ==
  Merged =>
    \A i \in 1..Len(harEntries) :
      LastSampleFor(i) # 0 =>
        LET t == requests[LastSampleFor(i)].timing
            e == harEntries[i]
        IN IF t.secureConnectionStart > 0
           THEN /\ e["_connect_end"] = t.secureConnectionStart
                /\ e["_secure_start"] = t.secureConnectionStart
                /\ e["_secure_end"] = t.connectEnd
           ELSE /\ e["_connect_end"] = t.connectEnd
                /\ e["_secure_start"] = -1
                /\ e["_secure_end"] = -1

(* =================== timing-phase properties =========================== *)
Parsed == harPc = "parsed"
Timed == navPc = "done"

RequestPcts(t) ==
  {t.dns_pct, t.connect_pct, t.ssl_pct, t.send_pct, t.wait_pct, t.receive_pct}
PagePcts(t) ==
  {t.dns_pct, t.tcp_pct, t.ssl_pct, t.request_pct, t.response_pct,
   t.processing_pct, t.dom_content_pct, t.complete_pct}

\* the six phases of a request record: start field, end field, duration
RequestPhases ==
  {<<"_dns_start", "_dns_end", "dns_time">>,
   <<"_connect_start", "_connect_end", "connect_time">>,
   <<"_secure_start", "_secure_end", "ssl_time">>,
   <<"_request_start", "_request_end", "send_time">>,
   <<"_request_end", "_response_start", "wait_time">>,
   <<"_response_start", "_response_end", "receive_time">>}

\* C5: the one-request archive (requestStart 100, responseStart 150,
\* responseEnd 200, nothing else, no live sample) is parsed into wait 50,
\* receive 50, total 100, dns 0 and dns percentage 0.
C5_EndToEndScenario ==
  (Parsed /\ archive = <<ScenarioEntry>>) =>
    LET t == harRequests[1].timings
    IN /\ t.wait_time = 50
       /\ t.receive_time = 50
       /\ t.total_time = 100
       /\ t.dns_time = 0
       /\ t.dns_pct.num = 0

\* C6: a phase with an absent or zero boundary is reported as 0, no phase
\* is negative, and with both boundaries present (not zero) and
\* end >= start the duration is end - start.
C6_PhaseDurations ==
  Parsed =>
    \A i \in 1..Len(harRequests) : \A ph \in RequestPhases :
      LET e == harEntries[i]
          dur == harRequests[i].timings[ph[3]]
      IN /\ (OrZero(e, ph[1]) = 0 \/ OrZero(e, ph[2]) = 0) => dur = 0
         /\ dur >= 0
         /\ (/\ OrZero(e, ph[1]) # 0
             /\ OrZero(e, ph[2]) # 0
             /\ OrZero(e, ph[2]) >= OrZero(e, ph[1]))
              => dur = e[ph[2]] - e[ph[1]]

\* C7: with a total <= 0 every percentage of the phase set is 0, for the
\* request records and for the page-level phases, and no percentage has
\* a zero divisor.
C7_NoTotalNoPercentage ==
  /\ Parsed =>
       \A i \in 1..Len(harRequests) :
         LET t == harRequests[i].timings
         IN /\ \A p \in RequestPcts(t) : p.den # 0
            /\ t.total_time <= 0 => \A p \in RequestPcts(t) : p.num = 0
  /\ Timed =>
       /\ \A p \in PagePcts(timing) : p.den # 0
       /\ timing.total_time <= 0 => \A p \in PagePcts(timing) : p.num = 0

\* a request and a page with a negative total and phases that are not 0
C7_Witness ==
  /\ Parsed
  /\ harRequests[1].timings.total_time < 0
  /\ harRequests[1].timings.receive_time # 0
  /\ timing.total_time < 0
  /\ timing.response_time # 0

\* C8: in both phase sets the DNS, connect/TCP and SSL percentages are 0
\* when their own duration is <= 0, and the other percentages are
\* duration / total * 100 whenever total > 0.
C8_SuppressedPercentages ==
  /\ Parsed =>
       \A i \in 1..Len(harRequests) :
         LET t == harRequests[i].timings
         IN /\ t.dns_time <= 0 => t.dns_pct.num = 0
            /\ t.connect_time <= 0 => t.connect_pct.num = 0
            /\ t.ssl_time <= 0 => t.ssl_pct.num = 0
            /\ t.total_time > 0 =>
                 /\ t.send_pct = Pct(t.send_time, t.total_time)
                 /\ t.wait_pct = Pct(t.wait_time, t.total_time)
                 /\ t.receive_pct = Pct(t.receive_time, t.total_time)
  /\ Timed =>
       /\ timing.dns_time <= 0 => timing.dns_pct.num = 0
       /\ timing.tcp_time <= 0 => timing.tcp_pct.num = 0
       /\ timing.ssl_time <= 0 => timing.ssl_pct.num = 0
       /\ timing.total_time > 0 =>
            /\ timing.request_pct = Pct(timing.request_time, timing.total_time)
            /\ timing.response_pct = Pct(timing.response_time, timing.total_time)
            /\ timing.processing_pct =
                 Pct(timing.dom_processing, timing.total_time)
            /\ timing.dom_content_pct =
                 Pct(timing.dom_content_loaded, timing.total_time)
            /\ timing.complete_pct = Pct(timing.complete_load, timing.total_time)

\* a percentage as a numerator over the page total
OverTotal(p, total) == (p.num * total) \div p.den

\* every timestamp present, or all but secureConnectionStart (no TLS)
MonotonicChain(nav) ==
  DOMAIN nav \in {NavFieldSet, NavFieldSet \ {"secureConnectionStart"}}

\* C9: for a monotonic chain of navigation timestamps the eight page-level
\* percentages add up to at most 100.
C9_PercentagesWithin100 ==
  (Timed /\ MonotonicChain(navTiming) /\ timing.total_time > 0) =>
    LET n(p) == OverTotal(p, timing.total_time)
    IN n(timing.dns_pct) + n(timing.tcp_pct) + n(timing.ssl_pct)
         + n(timing.request_pct) + n(timing.response_pct)
         + n(timing.processing_pct) + n(timing.dom_content_pct)
         + n(timing.complete_pct) <= 100 * timing.total_time

(* ================== route-interception properties ====================== *)
Routed == routePc = "done"
RegisteredKinds == {routes[i].kind : i \in 1..Len(routes)}
InvokedKinds == {invoked[i].kind : i \in 1..Len(invoked)}
BlockKinds == {"blockDomains", "block"}

\* the request's URL matches an installed delay rule and an installed
\* block rule
MatchesDelayAndBlock ==
  /\ \E i \in 1..Len(routes) :
       routes[i].kind = "delay" /\ Matches(routes[i], pageRequest)
  /\ \E i \in 1..Len(routes) :
       routes[i].kind \in BlockKinds /\ Matches(routes[i], pageRequest)

\* C10 as stated: for a request matching a delay rule and a block rule
\* the delay handler is invoked before the block handler.
C10_DelayBeforeBlock ==
  (Routed /\ MatchesDelayAndBlock) =>
    \E i \in 1..Len(invoked) :
      /\ invoked[i].kind = "delay"
      /\ \A j \in 1..Len(invoked) : invoked[j].kind \in BlockKinds => i < j

\* C10 amended: the order is block before delay; for a request matching a
\* delay rule and a block rule a block handler is invoked first, it
\* aborts the request, and no delay handler is invoked.
C10_BlockBeforeDelay ==
  (Routed /\ MatchesDelayAndBlock) =>
    /\ Len(invoked) = 1
    /\ invoked[1].kind \in BlockKinds
    /\ outcome = "aborted"
    /\ ~delayed

\* a routed request that matched both kinds of rule, with the override
\* route installed as well
C10_Witness ==
  /\ Routed
  /\ MatchesDelayAndBlock
  /\ RegisteredKinds = {"override", "delay", "blockDomains", "block"}
  /\ outcome = "aborted"
(* ----------------------- launchTest: one run --------------------------- *)
\* executeTest either returned a value or threw; without the catch of
\* launchTest the error would reject the caller's promise
LaunchTestRethrow(r, threw, error, dry) ==
  IF threw
  THEN [state |-> "rejected", error |-> error]
  ELSE [state |-> "resolved", success |-> TRUE, dry |-> dry, testId |-> r,
        resultsPath |-> <<"./results/", r>>]

\* launchTest: the value executeTest returned, or {success: false, error}
LaunchTestResult(r, threw, error, dry) ==
  IF threw
  THEN [state |-> "resolved", success |-> FALSE, error |-> error]
  ELSE [state |-> "resolved", success |-> TRUE, dry |-> dry, testId |-> r,
        resultsPath |-> <<"./results/", r>>]

\* executeTest up to its first await: getBrowserConfig (throws on an unknown
\* browser, outside the try), the runner's constructor (setupPaths makes the
\* results directory), saveConfig
LaunchTest(r) ==
  /\ runPc[r] = "new"
  /\ IF config[r].browser = "invalid"
     THEN /\ result' = [result EXCEPT ![r] =
                          LaunchTestResult(r, TRUE, "Invalid browser name",
                                           FALSE)]
          /\ runPc' = [runPc EXCEPT ![r] = "returned"]
          /\ UNCHANGED files
     ELSE /\ files' = [files EXCEPT ![r] = {"config.json"}]
          /\ runPc' = [runPc EXCEPT ![r] =
                         IF config[r].dry THEN "cleanup" ELSE "saved"]
          /\ UNCHANGED result
  /\ UNCHANGED <<config, pageloadHar, browserOpen, temporaryContext, throttled,
                 runError, uploaded, harVars, navVars, routeVars, reportVars, toolVars>>

\* setupTest: createBrowser launches a persistent context on ./tmp/ (the
\* same path for every run), then throttleNetwork
SetupTest(r, launched) ==
  /\ runPc[r] = "saved"
  /\ IF launched
     THEN /\ temporaryContext' = TRUE
          /\ browserOpen' = [browserOpen EXCEPT ![r] = TRUE]
          /\ throttled' = (throttled \/ config[r].connectionType)
          /\ runPc' = [runPc EXCEPT ![r] = "ready"]
          /\ UNCHANGED runError
     ELSE /\ runError' = [runError EXCEPT ![r] = "browser launch"]
          /\ runPc' = [runPc EXCEPT ![r] = "failing"]
          /\ UNCHANGED <<temporaryContext, browserOpen, throttled>>
  /\ UNCHANGED <<config, pageloadHar, files, uploaded, result, harVars,
                 navVars, routeVars, reportVars, toolVars>>

\* doNavigation: goto (a timeout goes on offline, any other error is
\* rethrown), screenshot, metrics, then the context is closed and the
\* recorder leaves pageload.har, whole, broken or not at all
DoNavigation(r, navigated, recorded) ==
  /\ runPc[r] = "ready"
  /\ IF navigated
     THEN /\ files' = [files EXCEPT ![r] =
                         @ \cup {"screenshot.png"}
                           \cup (IF recorded = "absent" THEN {}
                                 ELSE {"pageload.har"})]
          /\ pageloadHar' = [pageloadHar EXCEPT ![r] = recorded]
          /\ browserOpen' = [browserOpen EXCEPT ![r] = FALSE]
          /\ runPc' = [runPc EXCEPT ![r] = "navigated"]
          /\ UNCHANGED runError
     ELSE /\ runError' = [runError EXCEPT ![r] = "navigation"]
          /\ runPc' = [runPc EXCEPT ![r] = "failing"]
          /\ UNCHANGED <<files, pageloadHar, browserOpen>>
  /\ UNCHANGED <<config, temporaryContext, throttled, uploaded, result,
                 harVars, navVars, routeVars, reportVars, toolVars>>

\* postProcess up to createFilmStrip: throttleStop, fillOutHar (not inside
\* any try), then console.json, metrics.json, resources.json
PostProcess(r) ==
  /\ runPc[r] = "navigated"
  /\ throttled' = (throttled /\ ~config[r].connectionType)
  /\ IF pageloadHar[r] = "present"
     THEN /\ pageloadHar' = [pageloadHar EXCEPT ![r] = "merged"]
          /\ files' = [files EXCEPT ![r] =
                         @ \cup {"console.json", "metrics.json",
                                 "resources.json"}]
          /\ runPc' = [runPc EXCEPT ![r] = "filmstrip"]
          /\ UNCHANGED runError
     ELSE /\ runError' = [runError EXCEPT ![r] = "pageload.har"]
          /\ runPc' = [runPc EXCEPT ![r] = "failing"]
          /\ UNCHANGED <<pageloadHar, files>>
  /\ UNCHANGED <<config, browserOpen, temporaryContext, uploaded, result,
                 harVars, navVars, routeVars, reportVars, toolVars>>

ZipFile == "testId.zip"

\* the upload block deleting its temporary zip only after fetch resolved
ZipAfterUploadNoCatch(present, tempZip, answer) ==
  IF tempZip /\ answer # "threw" THEN present \ {ZipFile} ELSE present

\* a zip made for the upload is unlinked after fetch, and in the catch
\* when fetch threw; a zip made for --zip is left alone
ZipAfterUpload(present, tempZip, answer) ==
  IF tempZip THEN present \ {ZipFile} ELSE present

\* postProcess from createFilmStrip to the fetch of the upload: the HTML
\* report (its copy, read and render are not guarded), the --zip archive
\* (guarded), then the upload's own zip and the read of the zip
Render(r, rendered, zipped) ==
  /\ runPc[r] = "filmstrip"
  /\ LET tempZip == ~config[r].zip
         withHtml == files[r] \cup (IF config[r].html
                                     THEN {"engine.png", "index.html"}
                                     ELSE {})
         withZip == withHtml \cup (IF zipped THEN {ZipFile} ELSE {})
     IN IF config[r].html /\ ~rendered
        THEN /\ runError' = [runError EXCEPT ![r] = "report"]
             /\ runPc' = [runPc EXCEPT ![r] = "failing"]
             /\ UNCHANGED files
        ELSE IF ~config[r].uploadUrl
        THEN /\ files' = [files EXCEPT ![r] =
                            IF config[r].zip THEN withZip ELSE withHtml]
             /\ runPc' = [runPc EXCEPT ![r] = "cleanup"]
             /\ UNCHANGED runError
        ELSE IF zipped
        THEN /\ files' = [files EXCEPT ![r] = withZip]
             /\ runPc' = [runPc EXCEPT ![r] = "uploading"]
             /\ UNCHANGED runError
        ELSE /\ files' = [files EXCEPT ![r] = withHtml]
             /\ runError' = [runError EXCEPT ![r] = "zip"]
             /\ runPc' = [runPc EXCEPT ![r] = "failing"]
  /\ UNCHANGED <<config, pageloadHar, browserOpen, temporaryContext, throttled,
                 uploaded, result, harVars, navVars, routeVars, reportVars, toolVars>>

\* the fetch of the upload resolved (OK or not) or threw
Upload(r, answer) ==
  /\ runPc[r] = "uploading"
  /\ uploaded' = [uploaded EXCEPT ![r] = answer]
  /\ files' = [files EXCEPT ![r] =
                 ZipAfterUpload(@, ~config[r].zip, answer)]
  /\ IF answer = "threw"
     THEN /\ runError' = [runError EXCEPT ![r] = "upload"]
          /\ runPc' = [runPc EXCEPT ![r] = "failing"]
     ELSE /\ runPc' = [runPc EXCEPT ![r] = "cleanup"]
          /\ UNCHANGED runError
  /\ UNCHANGED <<config, pageloadHar, browserOpen, temporaryContext, throttled,
                 result, harVars, navVars, routeVars, reportVars, toolVars>>

\* cleanup of a dry run and cleanup at the end of postProcess, then the
\* return of executeTest: the browser is closed, ./tmp/ is removed; a
\* failing rmSync is thrown into the catch of executeTest
CleanupAndReturn(r, removed) ==
  /\ runPc[r] = "cleanup"
  /\ browserOpen' = [browserOpen EXCEPT ![r] = FALSE]
  /\ IF removed
     THEN /\ temporaryContext' = FALSE
          /\ result' = [result EXCEPT ![r] =
                          LaunchTestResult(r, FALSE, "", config[r].dry)]
          /\ runPc' = [runPc EXCEPT ![r] = "returned"]
          /\ UNCHANGED runError
     ELSE /\ runError' = [runError EXCEPT ![r] = "cleanup"]
          /\ runPc' = [runPc EXCEPT ![r] = "failing"]
          /\ UNCHANGED <<temporaryContext, result>>
  /\ UNCHANGED <<config, pageloadHar, files, throttled, uploaded, harVars,
                 navVars, routeVars, reportVars, toolVars>>

\* a catch that rethrows without cleaning up
CatchRethrow(r, removed) ==
  /\ runPc[r] = "failing"
  /\ result' = [result EXCEPT ![r] =
                  LaunchTestResult(r, TRUE, runError[r], FALSE)]
  /\ runPc' = [runPc EXCEPT ![r] = "returned"]
  /\ UNCHANGED <<config, pageloadHar, files, browserOpen, temporaryContext,
                 throttled, runError, uploaded, harVars, navVars, routeVars,
                 reportVars, toolVars>>

\* the catch of executeTest: cleanup with its own errors ignored, the error
\* rethrown to launchTest
CatchCleanup(r, removed) ==
  /\ runPc[r] = "failing"
  /\ browserOpen' = [browserOpen EXCEPT ![r] = FALSE]
  /\ temporaryContext' = (temporaryContext /\ ~removed)
  /\ result' = [result EXCEPT ![r] =
                  LaunchTestResult(r, TRUE, runError[r], FALSE)]
  /\ runPc' = [runPc EXCEPT ![r] = "returned"]
  /\ UNCHANGED <<config, pageloadHar, files, throttled, runError, uploaded,
                 harVars, navVars, routeVars, reportVars, toolVars>>

\* the options of a run that decide its path
RunConfigs ==
  [browser : {"chrome", "invalid"}, dry : BOOLEAN, connectionType : BOOLEAN,
   html : BOOLEAN, zip : BOOLEAN, uploadUrl : BOOLEAN]

\* the options of runs launched side by side
UploadConfigs ==
  [browser : {"chrome"}, dry : {FALSE}, connectionType : {FALSE},
   html : {FALSE}, zip : BOOLEAN, uploadUrl : BOOLEAN]
PlainConfigs ==
  [browser : {"chrome"}, dry : BOOLEAN, connectionType : {FALSE},
   html : {FALSE}, zip : {FALSE}, uploadUrl : {FALSE}]

\* nothing but runs is going on
NoPipeline ==
  /\ NoHar
  /\ NoRoute
  /\ NoReport

Launched(active) ==
  /\ runPc = [r \in Runs |-> IF r \in active THEN "new" ELSE "idle"]
  /\ pageloadHar = [r \in Runs |-> "none"]
  /\ files = [r \in Runs |-> {}]
  /\ browserOpen = [r \in Runs |-> FALSE]
  /\ temporaryContext = FALSE
  /\ throttled = FALSE
  /\ runError = [r \in Runs |-> ""]
  /\ uploaded = [r \in Runs |-> "none"]
  /\ result = [r \in Runs |-> [state |-> "pending"]]
  /\ NoPipeline
  /\ NoTools

\* one launchTest call
InitRun ==
  /\ \E c \in RunConfigs : config = [r \in Runs |-> IF r = "run_a" THEN c ELSE <<>>]
  /\ Launched({"run_a"})

\* two launchTest calls in flight at once
InitConcurrent ==
  /\ \E ca \in UploadConfigs, cb \in PlainConfigs :
       config = [r \in Runs |-> IF r = "run_a" THEN ca ELSE cb]
  /\ Launched(Runs)

NextRun ==
  \E r \in Runs :
    \/ LaunchTest(r)
    \/ \E launched \in BOOLEAN : SetupTest(r, launched)
    \/ \E navigated \in BOOLEAN,
          recorded \in {"present", "absent", "unparsable"} :
         DoNavigation(r, navigated, recorded)
    \/ PostProcess(r)
    \/ \E rendered \in BOOLEAN, zipped \in BOOLEAN :
         Render(r, rendered, zipped)
    \/ \E answer \in {"ok", "nonOK", "threw"} : Upload(r, answer)
    \/ \E removed \in BOOLEAN : CleanupAndReturn(r, removed)
    \/ \E removed \in BOOLEAN : CatchCleanup(r, removed)

SpecRun == InitRun /\ [][NextRun]_vars

SpecConcurrent == InitConcurrent /\ [][NextRun]_vars

(* ----------------------- the report of a run --------------------------- *)
MaxShifts == 2

\* a DOMRect: right and bottom follow from the origin and the size
Rect(l, t, w, h) ==
  [left |-> l, top |-> t, width |-> w, height |-> h,
   right |-> l + w, bottom |-> t + h]

\* inside the default viewport, ending on its right and bottom edge, wider
\* than it, taller than it, collapsed
Rects ==
  {Rect(0, 0, 960, 768), Rect(960, 0, 960, 1536), Rect(960, 0, 1440, 768),
   Rect(0, 768, 960, 1232), Rect(0, 0, 0, 0)}

LayoutSources == [previousRect : Rects, currentRect : Rects]

SourceLists ==
  {<<>>} \cup {<<src>> : src \in LayoutSources}
         \cup {<<[previousRect |-> Rect(0, 0, 960, 768),
                  currentRect |-> Rect(960, 0, 960, 1536)],
                 [previousRect |-> Rect(0, 0, 960, 768),
                  currentRect |-> Rect(960, 0, 1440, 768)]>>}

\* layout shifts with sources, as collectLayoutShifts records them
DrawnShifts == [value : {50}, sources : SourceLists]

\* layout shifts that only count for the CLS score (thousandths)
ClsValues == {0, 50, 100, 101, 250, 251}
ScoredShifts == [value : ClsValues, sources : {<<>>}] \cup {[sources |-> <<>>]}

\* LCP events with a paint time, and one without
LcpTimes == {1000, 2500, 2501, 3000, 4000, 4001, 5000}
TimedLcpEvents == [url : {""}, startTime : LcpTimes] \cup {[url |-> ""]}

\* transfer sizes around the unit thresholds
ByteSizes ==
  {0, 500, 1024, 1025, 2048, 1048576, 1048577, 1572864, 1073741824,
   1073741825, 1610612736}

PageURL == "https://example.com/"

\* entries whose size comes from _transferSize, from content.size, from both
SizedEntries ==
  {[url |-> PageURL, _transferSize |-> b] : b \in ByteSizes}
    \cup {[url |-> PageURL, size |-> b] : b \in ByteSizes}
    \cup {[url |-> PageURL, _transferSize |-> b, size |-> 500] :
            b \in ByteSizes}

\* entries with a start date (ms) and a total time, or with no date
WaterfallTimes == 0..(MaxT + 1)
WaterfallEntries ==
  [url : {PageURL}, startedDateTime : WaterfallTimes, time : WaterfallTimes]
    \cup [url : {PageURL}, time : WaterfallTimes]

\* a results directory before post-processing
Captured(a, events, shifts, nav) ==
  /\ harPc = "captured"
  /\ archive = a
  /\ harEntries = a
  /\ requests = <<>>
  /\ lcpEvents = events
  /\ indexLog = <<>>
  /\ harRequests = <<>>
  /\ navPc = "loaded"
  /\ navTiming = nav
  /\ timing = <<>>
  /\ NoRoute
  /\ harFile = "present"
  /\ pageTimings = <<>>
  /\ harResult = "none"
  /\ layoutShifts = shifts
  /\ report = <<>>
  /\ NoRun
  /\ NoTools

InitLayout ==
  \E shifts \in SeqsUpTo(DrawnShifts, MaxShifts) :
    Captured(<<[url |-> PageURL]>>, <<>>, shifts, <<>>)

InitVitals ==
  \/ \E shifts \in SeqsUpTo(ScoredShifts, MaxShifts) :
       Captured(<<[url |-> PageURL]>>, <<>>, shifts, <<>>)
  \/ \E events \in SeqsUpTo(TimedLcpEvents, MaxLcp) :
       Captured(<<[url |-> PageURL]>>, events, <<>>, <<>>)
  \/ \E nav \in NavTimings :
       Captured(<<[url |-> PageURL]>>, <<>>, <<>>, nav)

InitWaterfall ==
  \/ \E e \in SizedEntries : Captured(<<e>>, <<>>, <<>>, <<>>)
  \/ \E a \in SeqsUpTo(WaterfallEntries, MaxEntries) \ {<<>>} :
       Captured(a, <<>>, <<>>, <<>>)

\* a results directory whose archive may be missing, broken or empty, before
\* or after post-processing
InitFile ==
  /\ harPc \in {"captured", "merged"}
  /\ \/ harFile \in {"absent", "unparsable"} /\ archive = <<>>
     \/ harFile = "present" /\ archive \in SeqsUpTo(BareEntries, MaxEntries)
  /\ harEntries = archive
  /\ requests = <<>>
  /\ lcpEvents = <<>>
  /\ indexLog = <<>>
  /\ harRequests = <<>>
  /\ NoNav
  /\ NoRoute
  /\ pageTimings = <<>>
  /\ harResult = "none"
  /\ layoutShifts = <<>>
  /\ report = <<>>
  /\ NoRun
  /\ NoTools

InitReport == InitLayout \/ InitVitals \/ InitWaterfall \/ InitFile

NextReport ==
  FillOutHar \/ CalculateTimingPhases \/ ParseHarFile \/ GenerateHtml

SpecReport == InitReport /\ [][NextReport]_vars

(* ------------------------ claims on the report ------------------------- *)
Reported == harPc = "reported"
SamePct(p, q) == p.num * q.den = q.num * p.den
DrawnSources(shift) == SelectSeq(shift.sources, Drawn)
HasDrawnSource(shift) == Len(DrawnSources(shift)) > 0

RECURSIVE AllSources(_)
AllSources(shifts) ==
  IF Len(shifts) = 0 THEN <<>>
  ELSE Head(shifts).sources \o AllSources(Tail(shifts))

\* C11: every drawn rectangle of every shift is a percentage of ONE viewport,
\* the maximum of 1920 x 1536 and the largest right/bottom edge of any source
\* rectangle of any shift of the run; and on the default viewport a rectangle
\* whose right edge is 1920 has left% + width% = 100.
C11_RunWideViewport ==
  Reported =>
    LET vw == Viewport(AllSources(layoutShifts), "right", 1920)
        vh == Viewport(AllSources(layoutShifts), "bottom", 1536)
        shown == SelectSeq(layoutShifts, HasDrawnSource)
    IN /\ Len(report.layoutVisualData) = Len(shown)
       /\ \A i \in 1..Len(shown) :
            \A j \in 1..Len(DrawnSources(shown[i])) :
              LET out == report.layoutVisualData[i].sourceVisualData[j]
                  cur == DrawnSources(shown[i])[j].currentRect
                  prev == DrawnSources(shown[i])[j].previousRect
              IN /\ SamePct(out.currLeftPct, Pct(cur.left, vw))
                 /\ SamePct(out.currWidthPct, Pct(cur.width, vw))
                 /\ SamePct(out.currTopPct, Pct(cur.top, vh))
                 /\ SamePct(out.currHeightPct, Pct(cur.height, vh))
                 /\ SamePct(out.prevLeftPct, Pct(prev.left, vw))
                 /\ SamePct(out.prevWidthPct, Pct(prev.width, vw))
                 /\ SamePct(out.prevTopPct, Pct(prev.top, vh))
                 /\ SamePct(out.prevHeightPct, Pct(prev.height, vh))
                 /\ (vw = 1920 /\ cur.right = 1920) =>
                      out.currLeftPct.num * out.currWidthPct.den
                        + out.currWidthPct.num * out.currLeftPct.den
                      = 100 * out.currLeftPct.den * out.currWidthPct.den

LargestUnit(size) ==
  IF size > 1073741824 THEN " GB"
  ELSE IF size > 1048576 THEN " MB"
  ELSE IF size > 1024 THEN " KB" ELSE " B"

\* C12: the size column of a waterfall row uses the largest unit among B,
\* KB (1024), MB (1048576), GB (1073741824) whose threshold the size exceeds:
\* 500 is "500 B", 2048 is "2 KB", 1572864 is shown in MB, and nothing above
\* 1048576 is shown in KB.
C12_LargestUnitExceeded ==
  (Reported /\ harResult = "records") =>
    \A i \in 1..Len(harRequests) :
      LET size == harRequests[i].size
          shown == report.networkData[i].size
      IN /\ shown.suffix = LargestUnit(size)
         /\ (size = 500) => shown = [number |-> 500, suffix |-> " B"]
         /\ (size = 2048) => shown = [number |-> 2, suffix |-> " KB"]
         /\ (size = 1572864) => shown.suffix = " MB"
         /\ (size > 1048576) => shown.suffix \in {" MB", " GB"}

Starts == {harRequests[i].start_time : i \in 1..Len(harRequests)}
Ends ==
  {harRequests[i].start_time + harRequests[i].duration :
     i \in 1..Len(harRequests)}
Span ==
  (CHOOSE e \in Ends : \A x \in Ends : x <= e)
    - (CHOOSE b \in Starts : \A x \in Starts : b <= x)

Tier(value, good, fair) ==
  IF value <= good THEN "Good"
  ELSE IF value <= fair THEN "Needs Improvement" ELSE "Poor"

\* C14: ratings have three tiers with inclusive upper bounds: LCP 2500 and
\* 4000, CLS 0.1 and 0.25 (100 and 250 thousandths), TBT 200 and 600; LCP
\* 1000, 3000, 5000 rate Good, Needs Improvement, Poor; the report's TBT is
\* 0 and rates Good.
C14_ThreeTierRatings ==
  /\ \A v \in {0, 200, 201, 600, 601} :
       GetRating("TBT", v) = Tier(v, 200, 600)
  /\ Reported =>
       /\ report.lcpRating = Tier(report.lcp, 2500, 4000)
       /\ report.clsRating = Tier(report.cls, 100, 250)
       /\ report.tbt = 0
       /\ report.tbtRating = "Good"
       /\ (report.lcp = 1000) => report.lcpRating = "Good"
       /\ (report.lcp = 3000) => report.lcpRating = "Needs Improvement"
       /\ (report.lcp = 5000) => report.lcpRating = "Poor"

\* an LCP on the Good bound and a CLS on the Needs Improvement bound cannot
\* be in one run of these inputs: the LCP bound is the witness
C14_Witness ==
  /\ Reported
  /\ report.lcp = 2500
  /\ report.lcpRating = "Good"
  /\ report.tbtRating = "Good"

\* C15: parseHarFile gives null, never an exception, when the archive is
\* absent, unparsable or has no entries; else one record per entry, in
\* capture order.
C15_NullOrOneRecordPerEntry ==
  (harPc \in {"parsed", "reported"}) =>
    /\ harResult \in {"null", "records"}
    /\ harResult = "null" <=>
         (harFile \in {"absent", "unparsable"} \/ Len(harEntries) = 0)
    /\ harResult = "null" => harRequests = <<>>
    /\ harResult = "records" =>
         /\ Len(harRequests) = Len(harEntries)
         /\ \A i \in 1..Len(harEntries) :
              harRequests[i].url = harEntries[i].url

C15_Witness ==
  /\ harPc = "parsed"
  /\ harFile = "unparsable"
  /\ harResult = "null"

(* -------------------------- claims on a run ---------------------------- *)
Returned(r) == runPc[r] = "returned"
JsonArtifacts == {"console.json", "metrics.json", "resources.json"}

\* C16: a run whose pageload.har is absent or unparsable when postProcess
\* reaches fillOutHar still writes console.json, metrics.json and
\* resources.json, and launchTest returns success unless a later step
\* (report, zip, upload, cleanup) fails.
C16_MissingArchiveIsRecoverable ==
  \A r \in Runs :
    (Returned(r) /\ pageloadHar[r] \in {"absent", "unparsable"}) =>
      /\ JsonArtifacts \subseteq files[r]
      /\ \/ result[r].success
         \/ result[r].error \in {"report", "zip", "upload", "cleanup"}

\* C17: launchTest never rejects: whatever the options and whichever step
\* fails, a returned run has resolved to {success: true, testId,
\* resultsPath} or to {success: false, error}.
C17_LaunchTestNeverThrows ==
  \A r \in Runs :
    /\ result[r].state # "rejected"
    /\ Returned(r) =>
         /\ result[r].state = "resolved"
         /\ IF result[r].success
            THEN /\ result[r].testId = r
                 /\ result[r].resultsPath = <<"./results/", r>>
            ELSE result[r].error \in
                   {"Invalid browser name", "browser launch", "navigation",
                    "pageload.har", "report", "zip", "upload", "cleanup"}

\* a run whose final cleanup failed
C17_Witness ==
  \E r \in Runs :
    /\ Returned(r)
    /\ ~result[r].success
    /\ result[r].error = "cleanup"

C19_NoSharedState == \A r \in Runs : browserOpen[r] => temporaryContext

\* C20: the report's TTFB is responseStart - navigationStart, the value
\* fillOutHar wrote into the archive as _TTFB.
C20_ReportedTtfb ==
  (Reported /\ {"responseStart", "navigationStart"} \subseteq DOMAIN navTiming
     /\ "_TTFB" \in DOMAIN pageTimings) =>
    /\ report.ttfb = navTiming.responseStart - navTiming.navigationStart
    /\ report.ttfb = pageTimings["_TTFB"]

(* ------------------ the command line's block options ------------------- *)
MaxChars == 2
MaxElements == 2
MaxGroups == 2

\* a text is a sequence of characters
Alphabet == {"a", "b", ",", "[", "]", "\"", "'", " "}

\* String.prototype.includes
Includes(text, ch) == \E i \in 1..Len(text) : text[i] = ch

\* the index of the first character at or after i that is not JSON white
\* space, Len(text) + 1 when there is none
RECURSIVE SkipSpace(_, _)
SkipSpace(text, i) ==
  IF i <= Len(text) /\ text[i] = " " THEN SkipSpace(text, i + 1) ELSE i

\* the index of the first ch at or after i, 0 when there is none
RECURSIVE IndexOf(_, _, _)
IndexOf(text, ch, i) ==
  IF i > Len(text) THEN 0
  ELSE IF text[i] = ch THEN i
  ELSE IndexOf(text, ch, i + 1)

SyntaxError == [ok |-> FALSE, error |-> "SyntaxError"]

\* a JSON string literal that opens at i
JsonString(text, i) ==
  LET close == IndexOf(text, "\"", i + 1)
  IN IF close = 0 THEN SyntaxError
     ELSE [ok |-> TRUE, value |-> SubSeq(text, i + 1, close - 1),
           next |-> close + 1]

\* the elements of a JSON array after its opening bracket or a comma
RECURSIVE JsonElements(_, _, _)
JsonElements(text, i, acc) ==
  LET at == SkipSpace(text, i)
  IN IF at > Len(text) \/ text[at] # "\"" THEN SyntaxError
     ELSE LET str == JsonString(text, at)
          IN IF ~str.ok THEN SyntaxError
             ELSE LET after == SkipSpace(text, str.next)
                  IN IF after > Len(text) THEN SyntaxError
                     ELSE IF text[after] = ","
                       THEN JsonElements(text, after + 1,
                                         Append(acc, str.value))
                     ELSE IF text[after] = "]"
                       THEN [ok |-> TRUE, value |-> Append(acc, str.value),
                             next |-> after + 1]
                     ELSE SyntaxError

\* JSON.parse of a text over Alphabet, whose values are strings and arrays
\* of strings
JsonParse(text) ==
  LET at == SkipSpace(text, 1)
      parsed ==
        IF at > Len(text) THEN SyntaxError
        ELSE IF text[at] = "\"" THEN JsonString(text, at)
        ELSE IF text[at] = "["
          THEN LET inner == SkipSpace(text, at + 1)
               IN IF inner <= Len(text) /\ text[inner] = "]"
                    THEN [ok |-> TRUE, value |-> <<>>, next |-> inner + 1]
                    ELSE JsonElements(text, at + 1, <<>>)
        ELSE SyntaxError
  IN IF ~parsed.ok THEN SyntaxError
     ELSE IF SkipSpace(text, parsed.next) <= Len(text) THEN SyntaxError
     ELSE [ok |-> TRUE, value |-> parsed.value,
           array |-> text[at] = "["]

\* the spread of a parsed value: an array's elements, a string's characters
Spread(parsed) ==
  IF parsed.array THEN parsed.value
  ELSE [i \in 1..Len(parsed.value) |-> <<parsed.value[i]>>]

\* String.prototype.split(/,/)
RECURSIVE Split(_)
Split(text) ==
  LET comma == IndexOf(text, ",", 1)
  IN IF comma = 0 THEN <<text>>
     ELSE <<SubSeq(text, 1, comma - 1)>>
            \o Split(SubSeq(text, comma + 1, Len(text)))

\* a variant that keeps the empty parts
CommaSeparatedKeepEmpty(text) == Split(text)

CommaSeparated(text) == SelectSeq(Split(text), LAMBDA opt : opt # <<>>)

RECURSIVE ParseJSONArrayOrCommaSeparatedStrings(_, _)
ParseJSONArrayOrCommaSeparatedStrings(choices, chosen) ==
  IF choices = <<>> THEN [ok |-> TRUE, value |-> chosen]
  ELSE LET opt_group == Head(choices)
       IN IF Includes(opt_group, "[")
            THEN LET parsed == JsonParse(opt_group)
                 IN IF ~parsed.ok THEN parsed
                    ELSE ParseJSONArrayOrCommaSeparatedStrings(
                           Tail(choices), chosen \o Spread(parsed))
            ELSE ParseJSONArrayOrCommaSeparatedStrings(
                   Tail(choices), chosen \o CommaSeparated(opt_group))

\* new Error(`Problem parsing "--block" options - ${err.message}`)
ProblemParsing(option, err) ==
  [threw |-> TRUE,
   message |-> <<"Problem parsing ", option, " options - ", err>>]

\* normalizeCLIConfig for options that carry none of cookies, headers, auth,
\* delay, firefoxPrefs, overrideHost, flags, cpuThrottle and uploadUrl
NormalizeCLIConfigOf(opts) ==
  LET block == IF "block" \in DOMAIN opts
                 THEN ParseJSONArrayOrCommaSeparatedStrings(opts.block, <<>>)
                 ELSE [ok |-> TRUE, value |-> <<>>]
      blockDomains ==
        IF "blockDomains" \in DOMAIN opts
          THEN ParseJSONArrayOrCommaSeparatedStrings(opts.blockDomains, <<>>)
          ELSE [ok |-> TRUE, value |-> <<>>]
  IN IF ~block.ok THEN ProblemParsing("--block", block.error)
     ELSE IF ~blockDomains.ok
       THEN ProblemParsing("--blockDomains", blockDomains.error)
     ELSE [threw |-> FALSE, block |-> block.value,
           blockDomains |-> blockDomains.value]

NormalizeCLIConfig ==
  /\ cliPc = "read"
  /\ cliPc' = "normalized"
  /\ cliConfig' = NormalizeCLIConfigOf(cliOptions)
  /\ UNCHANGED <<cliOptions, harVars, navVars, routeVars, reportVars, runVars,
                 envVars, prefsVars, uploadVars>>

\* JSON.stringify of a list of strings, with optional white space around
\* every element
RECURSIVE Rendered(_, _)
Rendered(elements, inner) ==
  IF elements = <<>> THEN <<>>
  ELSE inner \o <<"\"">> \o Head(elements) \o <<"\"">> \o inner
         \o (IF Len(elements) > 1 THEN <<",">> ELSE <<>>)
         \o Rendered(Tail(elements), inner)

\* the array text, with optional white space before, inside and after
Stringify(elements, lead, inner, trail) ==
  lead \o <<"[">>
    \o (IF elements = <<>> THEN inner ELSE Rendered(elements, inner))
    \o <<"]">> \o trail

Pads == {<<>>, <<" ">>}

\* the strings a JSON array may hold: empty, plain, with a comma, a bracket
ElementTexts == {<<>>, <<"a">>, <<"b">>, <<"a", ",", "b">>, <<"[">>}

ElementLists == SeqsUpTo(ElementTexts, MaxElements)

JsonTexts ==
  {Stringify(l, lead, inner, trail) :
     l \in ElementLists, lead \in Pads, inner \in Pads, trail \in Pads}

\* the single-quoted array of the test suite, a trailing comma, an array
\* that is not closed, a bare word
BadTexts ==
  {<<"[", " ", "'", "a", "'", " ", "]">>,
   <<"[", "\"", "a", "\"", ",", "]">>,
   <<"[", "\"", "a", "\"">>,
   <<"[", "a", "]">>}

CharTexts == SeqsUpTo(Alphabet, MaxChars)

GroupTexts == CharTexts \cup JsonTexts \cup BadTexts

\* the groups that are given together with others
PairTexts ==
  {<<"a">>, <<"a", ",", "b">>, <<",">>, Stringify(<<<<"b">>>>, <<>>, <<>>, <<>>),
   Stringify(<<<<"a">>, <<"b">>>>, <<>>, <<" ">>, <<>>), <<"[", "a", "]">>}

GroupLists ==
  {<<g>> : g \in GroupTexts} \cup SeqsUpTo(PairTexts, MaxGroups)

CLIOptions ==
  [block : GroupLists] \cup [blockDomains : GroupLists]
    \cup [block : {<<g>> : g \in PairTexts},
          blockDomains : SeqsUpTo(PairTexts, MaxGroups)]
    \cup {<<>>}

\* nothing but the command line is in use
NoProgram == NoPipeline /\ NoRun

InitCli ==
  /\ cliPc = "read"
  /\ cliOptions \in CLIOptions
  /\ cliConfig = <<>>
  /\ NoProgram
  /\ NoEnv
  /\ NoPrefs
  /\ NoUpload

SpecCli == InitCli /\ [][NormalizeCLIConfig]_vars

(* --------------------------- claim C21 --------------------------------- *)
Normalized == cliPc = "normalized"

\* the members of a set of numbers, ascending
RECURSIVE Ascending(_)
Ascending(S) ==
  IF S = {} THEN <<>>
  ELSE LET least == CHOOSE i \in S : \A j \in S : i <= j
       IN <<least>> \o Ascending(S \ {least})

\* where the comma-free stretches of a text begin
PartStarts(text) ==
  {i \in 1..Len(text) : text[i] # "," /\ (i = 1 \/ text[i - 1] = ",")}

\* the comma-free stretch that begins at i
PartFrom(text, i) ==
  LET last == CHOOSE j \in i..Len(text) :
                /\ \A k \in i..j : text[k] # ","
                /\ j = Len(text) \/ text[j + 1] = ","
  IN SubSeq(text, i, last)

NonEmptyParts(text) ==
  LET starts == Ascending(PartStarts(text))
  IN [n \in 1..Len(starts) |-> PartFrom(text, starts[n])]

\* the text is a JSON array of these strings
IsArrayOf(text, l) ==
  \E lead \in Pads, inner \in Pads, trail \in Pads :
    text = Stringify(l, lead, inner, trail)

\* the strings that each array text holds
ArrayElements ==
  [text \in JsonTexts |-> CHOOSE l \in ElementLists : IsArrayOf(text, l)]

IsArrayText(text) == text \in JsonTexts

\* the text is one JSON string
IsStringText(text) ==
  /\ Len(text) >= 2
  /\ text[1] = "\"" /\ text[Len(text)] = "\""
  /\ \A i \in 2..(Len(text) - 1) : text[i] # "\""

\* what a group contributes to the flat list
GroupElements(group) ==
  IF Includes(group, "[")
    THEN ArrayElements[group]
    ELSE NonEmptyParts(group)

RECURSIVE Collapsed(_)
Collapsed(groups) ==
  IF groups = <<>> THEN <<>>
  ELSE GroupElements(Head(groups)) \o Collapsed(Tail(groups))

\* the groups supplied for an option
Supplied(option) ==
  IF option \in DOMAIN cliOptions THEN cliOptions[option] ELSE <<>>

AllSupplied == Supplied("block") \o Supplied("blockDomains")

\* a bracketed group that is not JSON
BadGroup(group) ==
  Includes(group, "[") /\ ~IsArrayText(group) /\ ~IsStringText(group)

\* a bracketed group that is JSON but not an array
StringGroup(group) == Includes(group, "[") /\ IsStringText(group)

\* C21: normalizeCLIConfig collapses --block and --blockDomains into flat
\* lists: the in-order concatenation, over the supplied groups, of the JSON
\* array's elements when the group contains '[' and of the group's non-empty
\* comma-separated parts otherwise; a group that contains '[' and is not valid
\* JSON makes it fail with a message that starts with 'Problem parsing'.
C21_BlockListsCollapse ==
  Normalized =>
    /\ (\E n \in 1..Len(AllSupplied) : BadGroup(AllSupplied[n])) =>
         /\ cliConfig.threw
         /\ cliConfig.message[1] = "Problem parsing "
    /\ (\A n \in 1..Len(AllSupplied) :
          ~BadGroup(AllSupplied[n]) /\ ~StringGroup(AllSupplied[n])) =>
         /\ ~cliConfig.threw
         /\ cliConfig.block = Collapsed(Supplied("block"))
         /\ cliConfig.blockDomains = Collapsed(Supplied("blockDomains"))

\* a comma-separated group with an empty part next to a JSON array
C21_Witness ==
  /\ Normalized
  /\ "block" \in DOMAIN cliOptions
  /\ cliOptions.block = <<<<",">>, <<"[", " ", "\"", "a", "\"", " ", ",",
                                     " ", "\"", "b", "\"", " ", "]">>>>
  /\ ~cliConfig.threw
  /\ cliConfig.block = << <<"a">>, <<"b">> >>

(* ---------------------- the browsers of a test run --------------------- *)
MaxPieces == 3

\* String.prototype.toLowerCase, on the letters the inputs use
LowerCase ==
  [ch \in {"T", "R", "U", "E", "Y", "S", "O", "N", "F", "I", "X", "C", "H",
           "M"} |->
     CASE ch = "T" -> "t" [] ch = "R" -> "r" [] ch = "U" -> "u"
       [] ch = "E" -> "e" [] ch = "Y" -> "y" [] ch = "S" -> "s"
       [] ch = "O" -> "o" [] ch = "N" -> "n" [] ch = "F" -> "f"
       [] ch = "I" -> "i" [] ch = "X" -> "x" [] ch = "C" -> "c"
       [] ch = "H" -> "h" [] ch = "M" -> "m"]

ToLowerCase(text) ==
  [i \in 1..Len(text) |->
     IF text[i] \in DOMAIN LowerCase THEN LowerCase[text[i]] ELSE text[i]]

TRUTHY_VALUES ==
  {<<"t", "r", "u", "e">>, <<"1">>, <<"y", "e", "s">>, <<"o", "n">>}

FALSY_VALUES ==
  {<<"f", "a", "l", "s", "e">>, <<"0">>, <<"n", "o">>, <<"o", "f", "f">>}

\* a variant that compares the value as it is written
ParseEnvBoolExact(env, name, defaultValue) ==
  IF name \notin DOMAIN env THEN defaultValue
  ELSE IF env[name] \in TRUTHY_VALUES THEN TRUE
  ELSE IF env[name] \in FALSY_VALUES THEN FALSE
  ELSE defaultValue

ParseEnvBool(env, name, defaultValue) ==
  IF name \notin DOMAIN env THEN defaultValue
  ELSE LET lower == ToLowerCase(env[name])
       IN IF lower \in TRUTHY_VALUES THEN TRUE
          ELSE IF lower \in FALSY_VALUES THEN FALSE
          ELSE defaultValue

\* the module is loaded: const CI = parseEnvBool(process.env.CI, false)
LoadBrowsersModule ==
  /\ envPc = "set"
  /\ envPc' = "loaded"
  /\ CI' = ParseEnvBool(processEnv, "CI", FALSE)
  /\ UNCHANGED <<processEnv, browsers, harVars, navVars, routeVars,
                 reportVars, runVars, cliVars, prefsVars, uploadVars>>

Chrome == <<"c", "h", "r", "o", "m", "e">>
Firefox == <<"f", "i", "r", "e", "f", "o", "x">>
Safari == <<"s", "a", "f", "a", "r", "i">>

\* Object.keys(BrowserConfig.browserConfigs)
ConfiguredBrowsers ==
  <<Chrome, Chrome \o <<"-", "b", "e", "t", "a">>,
    <<"c", "a", "n", "a", "r", "y">>, Firefox, Safari,
    <<"e", "d", "g", "e">>>>

IsConfigured(browser) ==
  \E n \in 1..Len(ConfiguredBrowsers) : ConfiguredBrowsers[n] = browser

\* the characters /[,\s]/ matches
Separators == {",", " ", "\t"}

RECURSIVE SkipSeparators(_, _)
SkipSeparators(text, i) ==
  IF i <= Len(text) /\ text[i] \in Separators
    THEN SkipSeparators(text, i + 1) ELSE i

\* String.prototype.split(/[,\s]+/), from character i on with the piece
\* read so far
RECURSIVE SplitOnSeparators(_, _, _)
SplitOnSeparators(text, i, piece) ==
  IF i > Len(text) THEN <<piece>>
  ELSE IF text[i] \in Separators
    THEN <<piece>> \o SplitOnSeparators(text, SkipSeparators(text, i), <<>>)
  ELSE SplitOnSeparators(text, i + 1, Append(piece, text[i]))

\* String.prototype.trim
RECURSIVE Trim(_)
Trim(text) ==
  IF text # <<>> /\ Head(text) \in {" ", "\t"} THEN Trim(Tail(text))
  ELSE IF text # <<>> /\ text[Len(text)] \in {" ", "\t"}
    THEN Trim(SubSeq(text, 1, Len(text) - 1))
  ELSE text

GetBrowsersOf(ci, env) ==
  IF ci THEN <<Firefox>>
  ELSE IF "BROWSERS" \in DOMAIN env /\ env.BROWSERS # <<>>
    THEN LET pieces == SplitOnSeparators(env.BROWSERS, 1, <<>>)
             lowered == [n \in 1..Len(pieces) |-> ToLowerCase(Trim(pieces[n]))]
             requestedBrowsers == SelectSeq(lowered, LAMBDA b : Len(b) > 0)
         IN SelectSeq(requestedBrowsers, IsConfigured)
  ELSE ConfiguredBrowsers

GetBrowsers ==
  /\ envPc = "loaded"
  /\ envPc' = "listed"
  /\ browsers' = GetBrowsersOf(CI, processEnv)
  /\ UNCHANGED <<processEnv, CI, harVars, navVars, routeVars, reportVars,
                 runVars, cliVars, prefsVars, uploadVars>>

\* values of CI: the recognised words in several cases, and others
CiTexts ==
  {<<"t", "r", "u", "e">>, <<"T", "R", "U", "E">>, <<"T", "r", "u", "e">>,
   <<"1">>, <<"Y", "E", "S">>, <<"o", "n">>, <<"O", "n">>,
   <<"f", "a", "l", "s", "e">>, <<"0">>, <<"N", "O">>, <<"o", "f", "f">>,
   <<>>, <<"2">>, <<"y">>, <<" ", "o", "n">>}

\* what BROWSERS is put together from: names in several cases, a name that
\* is not configured, separators
BrowserPieces ==
  {Chrome, <<"F", "I", "R", "E", "F", "O", "X">>,
   <<"S", "a", "f", "a", "r", "i">>, <<"h", "o", "t", "d", "o", "g">>,
   <<",">>, <<" ">>}

RECURSIVE Joined(_)
Joined(pieces) ==
  IF pieces = <<>> THEN <<>> ELSE Head(pieces) \o Joined(Tail(pieces))

BrowsersTexts == {Joined(p) : p \in SeqsUpTo(BrowserPieces, MaxPieces)}

ProcessEnvs ==
  [CI : CiTexts, BROWSERS : {<<>>, Chrome, <<",">>, Safari \o <<",">> \o Chrome}]
    \cup [BROWSERS : BrowsersTexts] \cup [CI : CiTexts] \cup {<<>>}

InitEnv ==
  /\ envPc = "set"
  /\ processEnv \in ProcessEnvs
  /\ CI = FALSE
  /\ browsers = <<>>
  /\ NoProgram
  /\ NoCli
  /\ NoPrefs
  /\ NoUpload

NextEnv == LoadBrowsersModule \/ GetBrowsers

SpecEnv == InitEnv /\ [][NextEnv]_vars

(* --------------------------- claim C22 --------------------------------- *)
Listed == envPc = "listed"

\* the same text but for the case of its letters
SameIgnoringCase(text, word) ==
  /\ Len(text) = Len(word)
  /\ \A i \in 1..Len(text) :
       \/ text[i] = word[i]
       \/ text[i] \in DOMAIN LowerCase /\ LowerCase[text[i]] = word[i]

CiTruthy ==
  /\ "CI" \in DOMAIN processEnv
  /\ \E word \in TRUTHY_VALUES : SameIgnoringCase(processEnv.CI, word)

\* where the names of a list begin
NameStarts(text) ==
  {i \in 1..Len(text) :
     text[i] \notin Separators /\ (i = 1 \/ text[i - 1] \in Separators)}

NameFrom(text, i) ==
  LET last == CHOOSE j \in i..Len(text) :
                /\ \A k \in i..j : text[k] \notin Separators
                /\ j = Len(text) \/ text[j + 1] \in Separators
  IN SubSeq(text, i, last)

\* the configured browser a requested name stands for, if any
Supported(name) ==
  {n \in 1..Len(ConfiguredBrowsers) :
     SameIgnoringCase(name, ConfiguredBrowsers[n])}

RECURSIVE RequestedSupported(_, _)
RequestedSupported(text, starts) ==
  IF starts = <<>> THEN <<>>
  ELSE LET name == NameFrom(text, Head(starts))
       IN (IF Supported(name) = {} THEN <<>>
           ELSE <<ConfiguredBrowsers[CHOOSE n \in Supported(name) : TRUE]>>)
            \o RequestedSupported(text, Tail(starts))

\* C22: getBrowsers returns exactly firefox when CI is truthy (true, 1, yes,
\* on, in any case), whatever BROWSERS holds; otherwise, when BROWSERS is set
\* and not empty, the requested names lower-cased, split on commas and white
\* space, without the unsupported ones, in order and with duplicates;
\* otherwise the six configured browsers.
C22_BrowserList ==
  Listed =>
    browsers =
      IF CiTruthy THEN <<Firefox>>
      ELSE IF "BROWSERS" \in DOMAIN processEnv /\ processEnv.BROWSERS # <<>>
        THEN RequestedSupported(processEnv.BROWSERS,
                                Ascending(NameStarts(processEnv.BROWSERS)))
      ELSE ConfiguredBrowsers

\* the same upper-case name twice
C22_Witness ==
  /\ Listed
  /\ ~CI
  /\ "BROWSERS" \in DOMAIN processEnv
  /\ processEnv.BROWSERS =
       <<"F", "I", "R", "E", "F", "O", "X">> \o <<",">>
         \o <<"F", "I", "R", "E", "F", "O", "X">>
  /\ browsers = <<Firefox, Firefox>>

(* ----------------------- claims C23 and C24 ---------------------------- *)
\* the steps of the runs on a file system that lets ./tmp/ be removed
NextRunRemoving ==
  \E r \in Runs :
    \/ LaunchTest(r)
    \/ \E launched \in BOOLEAN : SetupTest(r, launched)
    \/ \E navigated \in BOOLEAN,
          recorded \in {"present", "absent", "unparsable"} :
         DoNavigation(r, navigated, recorded)
    \/ PostProcess(r)
    \/ \E rendered \in BOOLEAN, zipped \in BOOLEAN :
         Render(r, rendered, zipped)
    \/ \E answer \in {"ok", "nonOK", "threw"} : Upload(r, answer)
    \/ CleanupAndReturn(r, TRUE)
    \/ CatchCleanup(r, TRUE)

SpecRunRemoving == InitRun /\ [][NextRunRemoving]_vars

\* getRunner returned a runner for the run
RunnerConstructed(r) == config[r] # <<>> /\ config[r].browser = "chrome"

C24_ThrottlingStopped ==
  \A r \in Runs : Returned(r) => ~throttled

(* --------------------------- claim C25 --------------------------------- *)
\* C25: the host override applies to every request that is not blocked and
\* whose URL matches an overridden domain, one that also matches a delay rule
\* included: it is rewritten to the new host with the X-Host header.
C25_OverrideAppliesToDelayed ==
  (Routed /\ outcome # "aborted" /\ options.overrideHost = "set"
     /\ pageRequest.override) => rewritten

(* ------------------------ the upload endpoint -------------------------- *)
\* the POST /api/upload requests in flight
Posts == {"post_1", "post_2"}

\* the ZIP archives that are uploaded: their files and their config.json
Zips ==
  [zip_x |-> [files |-> <<"config.json", "pageload.har">>, config |-> "valid"],
   zip_y |-> [files |-> <<"config.json", "pageload.har", "metrics.json">>,
              config |-> "valid"],
   zip_bare |-> [files |-> <<"pageload.har">>, config |-> "none"],
   zip_odd |-> [files |-> <<"config.json">>, config |-> "invalid"]]

\* generateContentHash: the SHA-256 digest of the ZIP's bytes
GenerateContentHash(zip) ==
  CASE zip = "zip_x" -> "9f2c"
    [] zip = "zip_y" -> "41d0"
    [] zip = "zip_bare" -> "c7aa"
    [] zip = "zip_odd" -> "03e5"

\* generateTestId: the date of config.json and a fresh random UUID
GenerateTestId(q) == IF q = "post_1" THEN "date_uuid_1" ELSE "date_uuid_2"

\* prisma.tests.findUnique({ where: { zip_key } })
FindTestIdByZipKey(rows, zipKey) ==
  IF \E row \in rows : row.zip_key = zipKey
    THEN (CHOOSE row \in rows : row.zip_key = zipKey).test_id
    ELSE Null

Answer(status, error, testId) ==
  [status |-> status, error |-> error, testId |-> testId]

\* POST up to the test configuration: form validation, unzip, hash, the
\* duplicate lookup and the checks of config.json
PostUpload(q, available) ==
  /\ uploadPc[q] = "received"
  /\ LET zip == uploadBody[q].zip
         found == FindTestIdByZipKey(tests, GenerateContentHash(zip))
         finish(answer) ==
           /\ response' = [response EXCEPT ![q] = answer]
           /\ uploadPc' = [uploadPc EXCEPT ![q] = "answered"]
     IN IF ~uploadBody[q].form
          THEN finish(Answer(400, "invalid form data", ""))
               /\ UNCHANGED existingTestId
        ELSE IF ~available
          THEN finish(Answer(500, "database unavailable", ""))
               /\ UNCHANGED existingTestId
        ELSE /\ existingTestId' = [existingTestId EXCEPT ![q] = found]
             /\ IF found # Null
                  THEN finish(Answer(409, "Duplicate uploads are not allowed.",
                                     found))
                ELSE IF Zips[zip].config = "none"
                  THEN finish(Answer(400, "No config.json file found", ""))
                ELSE IF Zips[zip].config = "invalid"
                  THEN finish(Answer(400, "Invalid config.json", ""))
                ELSE /\ uploadPc' = [uploadPc EXCEPT ![q] = "inserting"]
                     /\ UNCHANGED response
  /\ UNCHANGED <<uploadBody, tests, bucket, harVars, navVars, routeVars,
                 reportVars, runVars, cliVars, envVars, prefsVars>>

\* prisma.tests.create on a table whose test_id is the primary key and
\* whose zip_key is UNIQUE: the rows after the insert, unless it fails
CreateTestRows(rows, row) ==
  IF \E other \in rows :
       other.test_id = row.test_id \/ other.zip_key = row.zip_key
    THEN [ok |-> FALSE]
    ELSE [ok |-> TRUE, rows |-> rows \cup {row}]

\* await createTest(prisma, testConfig), in its own try
CreateTest(q, available) ==
  /\ uploadPc[q] = "inserting"
  /\ LET row == [test_id |-> GenerateTestId(q),
                 zip_key |-> GenerateContentHash(uploadBody[q].zip)]
         created == IF available THEN CreateTestRows(tests, row)
                    ELSE [ok |-> FALSE]
     IN IF ~created.ok
          THEN /\ response' = [response EXCEPT ![q] =
                    Answer(500, IF available
                                  THEN "Failed to insert test: constraint"
                                  ELSE "Failed to insert test: unavailable",
                           "")]
               /\ uploadPc' = [uploadPc EXCEPT ![q] = "answered"]
               /\ UNCHANGED tests
          ELSE /\ tests' = created.rows
               /\ uploadPc' = [uploadPc EXCEPT ![q] = "storing"]
               /\ UNCHANGED response
  /\ UNCHANGED <<uploadBody, existingTestId, bucket, harVars, navVars,
                 routeVars, reportVars, runVars, cliVars, envVars, prefsVars>>

\* the files of the upload that are not in the bucket yet, in order
Pending(q) ==
  SelectSeq(Zips[uploadBody[q].zip].files,
            LAMBDA filename : <<GenerateTestId(q), filename>> \notin bucket)

\* one await env.RESULTS_BUCKET.put(`${testId}/${filename}`, ...) of the
\* loop; after the last one the 200 answer; a put that throws is answered
\* by the outer catch
PutFile(q, stored) ==
  /\ uploadPc[q] = "storing"
  /\ IF stored
       THEN /\ bucket' = bucket \cup {<<GenerateTestId(q), Head(Pending(q))>>}
            /\ IF Len(Pending(q)) = 1
                 THEN /\ response' = [response EXCEPT ![q] =
                           Answer(200, "", GenerateTestId(q))]
                      /\ uploadPc' = [uploadPc EXCEPT ![q] = "answered"]
                 ELSE UNCHANGED <<response, uploadPc>>
       ELSE /\ response' = [response EXCEPT ![q] =
                 Answer(500, "bucket put failed", "")]
            /\ uploadPc' = [uploadPc EXCEPT ![q] = "answered"]
            /\ UNCHANGED bucket
  /\ UNCHANGED <<uploadBody, existingTestId, tests, harVars, navVars,
                 routeVars, reportVars, runVars, cliVars, envVars, prefsVars>>

UploadBodies == [form : BOOLEAN, zip : DOMAIN Zips]

InitUpload ==
  /\ uploadPc = [q \in Posts |-> "received"]
  /\ uploadBody \in [Posts -> UploadBodies]
  /\ existingTestId = [q \in Posts |-> Null]
  /\ tests = {}
  /\ bucket = {}
  /\ response = [q \in Posts |-> <<>>]
  /\ NoProgram
  /\ NoCli
  /\ NoEnv
  /\ NoPrefs

NextUpload ==
  \E q \in Posts :
    \/ \E available \in BOOLEAN : PostUpload(q, available)
    \/ \E available \in BOOLEAN : CreateTest(q, available)
    \/ \E stored \in BOOLEAN : PutFile(q, stored)

SpecUpload == InitUpload /\ [][NextUpload]_vars

(* ----------------------- claims C26 and C27 ---------------------------- *)
Answered(q) == uploadPc[q] = "answered"

\* the uploads carry the same well-formed ZIP and no store has failed
SameZipNoOutage ==
  /\ \A q \in Posts : Answered(q) /\ uploadBody[q].form
  /\ \A p \in Posts, q \in Posts : uploadBody[p].zip = uploadBody[q].zip
  /\ \A q \in Posts : Zips[uploadBody[q].zip].config = "valid"
  /\ \A q \in Posts :
       response[q].error \notin {"database unavailable",
                                 "Failed to insert test: unavailable",
                                 "bucket put failed"}

\* C26: of the concurrent uploads of one ZIP exactly one is answered 200
\* and every other one 409 'Duplicate uploads are not allowed' with the
\* accepted test ID; the table holds at most one row for the zip_key.
C26_OneAcceptedOthersConflict ==
  SameZipNoOutage =>
    /\ \E p \in Posts :
         /\ response[p].status = 200
         /\ \A q \in Posts \ {p} :
              /\ response[q].status = 409
              /\ response[q].testId = response[p].testId
    /\ \A row \in tests, other \in tests :
         row.zip_key = other.zip_key => row = other

\* the files of an upload that the bucket holds under its test ID
Stored(q) ==
  {filename \in {Zips[uploadBody[q].zip].files[n] :
                   n \in 1..Len(Zips[uploadBody[q].zip].files)} :
     <<GenerateTestId(q), filename>> \in bucket}

HasRow(q) == \E row \in tests : row.test_id = GenerateTestId(q)

\* C27: once an upload is answered, its row exists if and only if every
\* file of the upload is stored under its test ID; an error answer leaves
\* no row and no stored file.
C27_RowIffAllFilesStored ==
  \A q \in Posts :
    Answered(q) =>
      /\ HasRow(q) <=>
           (Cardinality(Stored(q)) = Len(Zips[uploadBody[q].zip].files))
      /\ response[q].status # 200 => (~HasRow(q) /\ Stored(q) = {})

(* -------------------- the Firefox preferences file --------------------- *)
MaxPrefs == 2

\* the lines of ./support/firefox/user.js
StarterPrefs ==
  <<[key |-> "starter.pref", value |-> "false", quoted |-> FALSE]>>

\* what a run that was not cleaned up left in ./tmp/user.js
StalePrefs == <<[key |-> "stale.pref", value |-> "true", quoted |-> FALSE]>>

\* one line of addFirefoxPrefs: a boolean is written bare, any other value
\* between quotes
PrefLine(entry) ==
  [key |-> entry.key, value |-> entry.value,
   quoted |-> entry.type # "boolean"]

\* createUserDataDir for the firefox engine: ./tmp/ is made and the copy of
\* the starter file is handed to the thread pool; it has not run yet
CreateUserDataDir ==
  /\ prefsPc.step = "called"
  /\ prefsPc' = [step |-> "appending", appended |-> 0]
  /\ copyPending' = TRUE
  /\ UNCHANGED <<firefoxPrefs, userJs, harVars, navVars, routeVars,
                 reportVars, runVars, cliVars, envVars, uploadVars>>

\* one fs.appendFileSync('./tmp/user.js', line) of addFirefoxPrefs
AddFirefoxPrefs ==
  /\ prefsPc.step = "appending"
  /\ prefsPc.appended < Len(firefoxPrefs)
  /\ userJs' = Append(userJs, PrefLine(firefoxPrefs[prefsPc.appended + 1]))
  /\ prefsPc' = [prefsPc EXCEPT !.appended = @ + 1]
  /\ UNCHANGED <<firefoxPrefs, copyPending, harVars, navVars, routeVars,
                 reportVars, runVars, cliVars, envVars, uploadVars>>

\* every line is appended: getBrowserConfig returns the configuration
ReturnBrowserConfig ==
  /\ prefsPc.step = "appending"
  /\ prefsPc.appended = Len(firefoxPrefs)
  /\ prefsPc' = [prefsPc EXCEPT !.step = "returned"]
  /\ UNCHANGED <<firefoxPrefs, userJs, copyPending, harVars, navVars,
                 routeVars, reportVars, runVars, cliVars, envVars, uploadVars>>

\* the copy runs on its thread, at any moment after it was started: the
\* destination is truncated and the starter file written over it
CopyFile ==
  /\ copyPending
  /\ userJs' = StarterPrefs
  /\ copyPending' = FALSE
  /\ UNCHANGED <<prefsPc, firefoxPrefs, harVars, navVars, routeVars,
                 reportVars, runVars, cliVars, envVars, uploadVars>>

PrefKeys == {"image.avif.enabled", "browser.startup.page"}

PrefEntries ==
  [key : PrefKeys, type : {"boolean"}, value : {"false", "true"}]
    \cup [key : PrefKeys, type : {"string"}, value : {"about:blank"}]

\* Object.entries(options.firefoxPrefs): no key twice
FirefoxPrefs ==
  {p \in SeqsUpTo(PrefEntries, MaxPrefs) :
     \A i \in 1..Len(p), j \in 1..Len(p) : p[i].key = p[j].key => i = j}

\* getBrowserConfig('firefox', options) is called; ./tmp/user.js is absent
\* (no lines) or left from a run that was not cleaned up
InitPrefs ==
  /\ prefsPc = [step |-> "called", appended |-> 0]
  /\ firefoxPrefs \in FirefoxPrefs
  /\ userJs \in {<<>>, StalePrefs}
  /\ copyPending = FALSE
  /\ NoProgram
  /\ NoCli
  /\ NoEnv
  /\ NoUpload

NextPrefs ==
  CreateUserDataDir \/ AddFirefoxPrefs \/ ReturnBrowserConfig \/ CopyFile

SpecPrefs == InitPrefs /\ [][NextPrefs]_vars

(* --------------------------- claim C28 --------------------------------- *)
\* C28: once getBrowserConfig has returned and the copy of the starter file
\* has completed, ./tmp/user.js holds the starter preferences followed by
\* one user_pref line for every supplied preference, whatever the order of
\* the copy and the appends.
C28_StarterThenEveryPref ==
  (prefsPc.step = "returned" /\ ~copyPending) =>
    userJs = StarterPrefs
               \o [n \in 1..Len(firefoxPrefs) |-> PrefLine(firefoxPrefs[n])]

====
